---- MODULE Spec2Model ----
(***************************************************************************)
(* Verification model of the Storj core node: the file muxer, the signed   *)
(* RPC receive pipeline of lib/network/index.js and the join / tunnel      *)
(* set-up life cycle of Network.                                           *)
(***************************************************************************)
EXTENDS Integers, Sequences, FiniteSets, TLC

VARIABLES
    \* ---- FileMuxer (lib/filemuxer.js) ----
    _shards,        \* declared number of inputs
    _length,        \* declared number of bytes
    _added,         \* inputs registered so far
    _inputs,        \* registered inputs that have not ended yet, in order
    _bytesRead,     \* bytes delivered so far
    registered,     \* contents of the readables passed to input(), in call order
    muxOut,         \* bytes pushed downstream, each tagged with its input
    muxState,       \* "open", "ended" (push(null)) or "error"
    muxError,       \* message of the last error emitted or thrown
    \* ---- Network: receive pipeline (lib/network/index.js) ----
    _pubkeys,       \* Network._pubkeys: nodeID -> recovered public key
    routerContacts, \* nodeIDs held by the routing table (Network._router)
    counters,       \* RateLimiter: nodeID -> requests counted in this period
    allowLoopback,  \* process.env.STORJ_ALLOW_LOOPBACK
    last,           \* the last message received and what the hooks did with it
    \* ---- Network: join, tunnel set-up, overlay entry ----
    net,            \* the Network object, its pending callbacks and its history
    \* ---- Network: tunneler bucket, routing table cleaner, idle countdown ----
    tun,            \* Network._tunnelers and the last publication handled
    rt,             \* the router's buckets and the result of the last clean
    act,            \* the re-entry countdown of _updateActivityCounter
    \* ---- utils (lib/utils.js) ----
    util,           \* the last call of a utils function and its result
    \* ---- BridgeClient: shard upload (lib/bridge-client) ----
    up,             \* one storeFileInBucket call: its UploadState and shards
    \* ---- RAMStorageAdapter (lib/storage/adapters/ram.js) ----
    ram,            \* the adapter's items and the last operation on it
    \* ---- BridgeClient: download and bridge requests; Transport.send ----
    down,           \* one createFileStream call: its muxer, queue and slices
    frame,          \* one addShardToFileStagingFrame call and its requests
    sent            \* one Transport.send call and what it handed on

muxVars == <<_shards, _length, _added, _inputs, _bytesRead, registered,
             muxOut, muxState, muxError>>

recvVars == <<_pubkeys, routerContacts, counters, allowLoopback, last>>

joinVars == <<net>>

vars == <<muxVars, recvVars, joinVars, tun, rt, act, util, up, ram, down, frame, sent>>

\* what the operations of one component leave alone
notMux == <<recvVars, joinVars, tun, rt, act, util, up, ram, down, frame, sent>>
notRecv == <<muxVars, joinVars, tun, rt, act, util, up, ram, down, frame, sent>>
notJoin == <<muxVars, recvVars, tun, rt, act, util, up, ram, down, frame, sent>>
coreVars == <<muxVars, recvVars, joinVars>>
notTun == <<coreVars, rt, act, util, up, ram, down, frame, sent>>
notRt == <<coreVars, tun, act, util, up, ram, down, frame, sent>>
notAct == <<coreVars, tun, rt, util, up, ram, down, frame, sent>>
notUtil == <<coreVars, tun, rt, act, up, ram, down, frame, sent>>
notUp == <<coreVars, tun, rt, act, util, ram, down, frame, sent>>
notRam == <<coreVars, tun, rt, act, util, up, down, frame, sent>>
notDown == <<coreVars, tun, rt, act, util, up, ram, frame, sent>>
notFrame == <<coreVars, tun, rt, act, util, up, ram, down, sent>>
notSent == <<coreVars, tun, rt, act, util, up, ram, down, frame>>

(***************************************************************************)
(* Generic helpers                                                         *)
(***************************************************************************)
RECURSIVE Flatten(_)
Flatten(ss) == IF ss = <<>> THEN <<>> ELSE Head(ss) \o Flatten(Tail(ss))

RECURSIVE SumLen(_)
SumLen(ss) == IF ss = <<>> THEN 0 ELSE Len(Head(ss)) + SumLen(Tail(ss))

IsPrefix(s, t) == Len(s) <= Len(t) /\ SubSeq(t, 1, Len(s)) = s

SeqsUpTo(S, n) == UNION {[1..k -> S] : k \in 0..n}

RecvIdle ==
    /\ _pubkeys = <<>> /\ routerContacts = {} /\ counters = <<>>
    /\ allowLoopback = FALSE /\ last = [received |-> FALSE]

JoinIdle == net = [join |-> "idle"]

\* the components a specification does not exercise are left unused
Unused == [used |-> FALSE]
TunIdle == tun = Unused
RtIdle == rt = Unused
ActIdle == act = Unused
UtilIdle == util = Unused
UpIdle == up = Unused
RamIdle == ram = Unused
DownIdle == down = Unused
FrameIdle == frame = Unused
SentIdle == sent = Unused
MoreIdle == DownIdle /\ FrameIdle /\ SentIdle
RestIdle == TunIdle /\ RtIdle /\ ActIdle /\ UtilIdle /\ UpIdle /\ RamIdle /\ MoreIdle

(***************************************************************************)
(* FileMuxer                                                               *)
(***************************************************************************)
MaxShards == 2      \* largest declared shard count explored
MaxLength == 4      \* largest declared length explored
MaxInputLen == 2    \* longest input stream explored
Bytes == {1, 2}

Contents == SeqsUpTo(Bytes, MaxInputLen)

MuxIdle ==
    /\ _shards = 1 /\ _length = 1 /\ _added = 0 /\ _inputs = <<>>
    /\ _bytesRead = 0 /\ registered = <<>> /\ muxOut = <<>>
    /\ muxState = "open" /\ muxError = "none"

\* new FileMuxer({shards, length}) with valid options
MuxInit ==
    /\ _shards \in 1..MaxShards
    /\ _length \in 1..MaxLength
    /\ _added = 0 /\ _inputs = <<>> /\ _bytesRead = 0
    /\ registered = <<>> /\ muxOut = <<>>
    /\ muxState = "open" /\ muxError = "none"

\* FileMuxer.prototype.input without its check of the number of inputs
inputUnchecked(content) ==
    /\ muxState = "open"
    /\ registered' = Append(registered, content)
    /\ _inputs' = Append(_inputs, [src |-> Len(registered) + 1, buf |-> content])
    /\ _added' = _added + 1
    /\ muxError' = "none"
    /\ UNCHANGED <<_shards, _length, _bytesRead, muxOut, muxState>>
    /\ UNCHANGED notMux

\* FileMuxer.prototype.input: registers the readable, or throws
input(content) ==
    /\ muxState = "open"
    /\ IF _added < _shards
       THEN /\ registered' = Append(registered, content)
            /\ _inputs' = Append(_inputs, [src |-> Len(registered) + 1, buf |-> content])
            /\ _added' = _added + 1
            /\ muxError' = "none"
       ELSE /\ muxError' = "Inputs exceed defined number of shards"
            /\ UNCHANGED <<registered, _inputs, _added>>
    /\ UNCHANGED <<_shards, _length, _bytesRead, muxOut, muxState>>
    /\ UNCHANGED notMux

\* the position in _inputs of the input the muxer currently drains
CurrentInputLast == Len(_inputs)
CurrentInput == 1

Tag(src, bs) == [i \in 1..Len(bs) |-> [src |-> src, byte |-> bs[i]]]

\* the chunk pulled from the input would take the output past the length
ExceedsNever(k) == FALSE
Exceeds(k) == _bytesRead + k > _length

\* nothing to read from although the declared length is not reached
EndOfInputSilent ==
    /\ muxState' = "ended"
    /\ UNCHANGED <<_inputs, _bytesRead, muxOut, muxError>>
EndOfInput ==
    /\ muxState' = "error"
    /\ muxError' = "Unexpected end of input"
    /\ UNCHANGED <<_inputs, _bytesRead, muxOut>>

\* FileMuxer.prototype._read: one pull from downstream
read(k) ==
    /\ muxState = "open"
    /\ IF _bytesRead = _length
       THEN /\ muxState' = "ended"
            /\ UNCHANGED <<_inputs, _bytesRead, muxOut, muxError>>
       ELSE IF _inputs = <<>>
       THEN EndOfInput
       ELSE LET c == CurrentInput
                in == _inputs[c]
            IN  IF in.buf = <<>>
                THEN \* the input has ended: it is spliced out of _inputs
                     /\ _inputs' = [j \in 1..(Len(_inputs) - 1) |->
                                        IF j < c THEN _inputs[j] ELSE _inputs[j + 1]]
                     /\ UNCHANGED <<_bytesRead, muxOut, muxState, muxError>>
                ELSE /\ k \in 1..Len(in.buf)
                     /\ IF Exceeds(k)
                        THEN /\ muxState' = "error"
                             /\ muxError' = "Input exceeds the declared length"
                             /\ UNCHANGED <<_inputs, _bytesRead, muxOut>>
                        ELSE /\ muxOut' = muxOut \o Tag(in.src, SubSeq(in.buf, 1, k))
                             /\ _bytesRead' = _bytesRead + k
                             /\ _inputs' = [_inputs EXCEPT ![c].buf =
                                               SubSeq(in.buf, k + 1, Len(in.buf))]
                             /\ UNCHANGED <<muxState, muxError>>
    /\ UNCHANGED <<_shards, _length, _added, registered>>
    /\ UNCHANGED notMux

MuxInput == \E content \in Contents : input(content)
MuxRead == \E k \in 1..MaxInputLen : read(k)

NextMux == MuxInput \/ MuxRead

InitMux == MuxInit /\ RecvIdle /\ JoinIdle /\ RestIdle

SpecMux == InitMux /\ [][NextMux]_vars

OutBytes == [i \in 1..Len(muxOut) |-> muxOut[i].byte]

\* C1: the muxer yields the inputs' bytes in registration order: the output
\* is always a prefix of bytes(r1) ++ ... ++ bytes(rn), no byte of a later
\* input is out while an earlier input is still registered, and once the
\* muxer has ended with all n inputs and length = total the output is the
\* whole concatenation.
C1_MuxOrder ==
    /\ IsPrefix(OutBytes, Flatten(registered))
    /\ \A p \in DOMAIN muxOut : \A q \in DOMAIN _inputs :
          _inputs[q].src >= muxOut[p].src
    /\ \A p, q \in DOMAIN muxOut : p < q => muxOut[p].src <= muxOut[q].src
    /\ (muxState = "ended" /\ _added = _shards /\ _length = SumLen(registered))
          => OutBytes = Flatten(registered)

C1_Witness ==
    /\ muxState = "ended" /\ _shards = 2 /\ _added = 2
    /\ registered = <<(<<1, 2>>), (<<2, 1>>)>>
    /\ OutBytes = <<1, 2, 2, 1>>

(***************************************************************************)
(* Network: signed RPC envelope and the 'receive' hooks installed by join  *)
(***************************************************************************)
NONCE_EXPIRE == 300000          \* constants.NONCE_EXPIRE, in ms (5 minutes)
Limit == 2                      \* RateLimiter: requests allowed per period

Keys == {"k1", "k2"}            \* key pairs of the senders
JunkKey == "kx"                 \* a key ECDSA recovery yields for a foreign hash
NoKey == "none"

\* KeyPair.getNodeID: RIPEMD160(SHA256(pubkey)), taken as collision free
NodeID(k) == CASE k = "k1" -> "n1" [] k = "k2" -> "n2" [] OTHER -> "nx"
NodeIDs == {NodeID(k) : k \in Keys}

RECURSIVE Digits(_)
Digits(n) == IF n < 10 THEN <<n>> ELSE Append(Digits(n \div 10), n % 10)

\* message.id + nonce: the string that is signed
Target(id, nonce) == id \o Digits(nonce)

\* KeyPair.sign: a well-formed compact signature by key k over target t
Sign(k, t) == [key |-> k, target |-> t]
Malformed == [key |-> NoKey, target |-> <<>>]

ExemptWithoutOpenTunnel == {"PROBE", "FIND_TUNNEL"}
RPC_VALIDATION_EXEMPT == {"PROBE", "FIND_TUNNEL", "OPEN_TUNNEL"}
Methods == {"PROBE", "FIND_TUNNEL", "OPEN_TUNNEL", "PING"}

\* kad.Message.isRequest / isResponse
isRequest(m) == m.kind = "request"
isResponse(m) == m.kind = "response"

\* Network.prototype._signMessage: stamps nonce = Date.now() and the signature
_signMessage(m, k, now) ==
    [m EXCEPT !.nonce = now, !.signature = Sign(k, Target(m.id, now))]

OwnVersion == [major |-> 0, minor |-> 9, patch |-> 0, tag |-> ""]

\* utils.isCompatibleVersion: same major, same minor, same tag
isSameVersion(v) == v = OwnVersion
isCompatibleVersion(v) ==
    /\ v.major = OwnVersion.major
    /\ v.minor = OwnVersion.minor
    /\ v.tag = OwnVersion.tag

\* utils.isValidContact: port > 0, loopback only if allowed
isValidPort(c, loopback) == c.port > 0
isValidContact(c, loopback) ==
    /\ c.port > 0
    /\ (c.address = "127.0.0.1" => loopback)

\* Network.prototype._validateContact: the error it calls back with
_validateContact(c) ==
    IF ~isCompatibleVersion(c.protocol) THEN "Protocol version is incompatible"
    ELSE IF ~isValidContact(c, allowLoopback) THEN "Invalid contact data supplied"
    ELSE "none"

\* the nonce test of _verifyMessage: Date.now() > NONCE_EXPIRE + nonce
ExpiredNever(now, nonce) == FALSE
Expired(now, nonce) == now > NONCE_EXPIRE + nonce

\* Network.prototype._createSignatureObject: null for what does not parse
_createSignatureObject(sig) == IF sig.key = NoKey THEN "null" ELSE "signobj"

\* ecdsa.toPublicKey(): the key recovered from the signature and the hash
Recover(sig, t) == IF sig.target = t THEN sig.key ELSE JunkKey

\* signedmsg.verify(address, signature): recovered key hashes to the nodeID
VerifyNoCheck(nodeID, sig, t) == TRUE
Verify(nodeID, sig, t) == NodeID(Recover(sig, t)) = nodeID

\* whether contact validation may stop the message
NotExempt(m) == m.method \notin RPC_VALIDATION_EXEMPT

\* this._router.removeContact(contact) in _validateContact: runs whenever
\* the validation fails, before the method is looked at
RemovesUnlessExempt(verr, m) == verr # "none" /\ NotExempt(m)
Removes(verr, m) == verr # "none"

\* Network.prototype._verifyMessage followed by _verifySignature:
\* err is the error handed to the hook's callback ("none" when it passes),
\* stage is how far the message got, key the public key stored in _pubkeys
_verifyMessage(m, c, now) ==
    LET verr == _validateContact(c)
        t == Target(m.id, m.nonce)
    IN  IF verr # "none" /\ NotExempt(m)
        THEN [err |-> verr, stage |-> "contact", removed |-> TRUE, key |-> NoKey]
        ELSE IF Expired(now, m.nonce)
        THEN [err |-> "Message signature expired", stage |-> "nonce",
              removed |-> Removes(verr, m), key |-> NoKey]
        ELSE IF _createSignatureObject(m.signature) = "null"
        THEN [err |-> "Invalid signature supplied", stage |-> "signature",
              removed |-> Removes(verr, m), key |-> NoKey]
        ELSE IF ~Verify(c.nodeID, m.signature, t)
        THEN [err |-> "Signature verification failed", stage |-> "signature",
              removed |-> Removes(verr, m), key |-> Recover(m.signature, t)]
        ELSE [err |-> "none", stage |-> "signature",
              removed |-> Removes(verr, m), key |-> Recover(m.signature, t)]

\* RateLimiter.isLimited
isLimited(nodeID) == counters[nodeID] >= Limit

\* whether _checkRateLimiter counts the message
CountsAlways(m, c) == isRequest(m)
Counts(m, c) == isRequest(m) /\ ~isLimited(c.nodeID)

\* Network.prototype._checkRateLimiter: next() is called unless the sender
\* is limited, and then one error response is sent back
_checkRateLimiter(m, c) ==
    IF isResponse(m)
    THEN [next |-> TRUE, count |-> FALSE, sent |-> <<>>]
    ELSE IF ~isLimited(c.nodeID)
    THEN [next |-> TRUE, count |-> Counts(m, c), sent |-> <<>>]
    ELSE [next |-> FALSE, count |-> Counts(m, c),
          sent |-> <<[to |-> c.nodeID, id |-> m.id, error |-> "Rate limit exceeded"]>>]

\* the 'receive' hooks in the order join installs them:
\* _verifyMessage, _checkRateLimiter, the protocol handlers
Receive(m, c, now) ==
    LET v == _verifyMessage(m, c, now)
        r == IF v.err = "none" THEN _checkRateLimiter(m, c)
             ELSE [next |-> FALSE, count |-> FALSE, sent |-> <<>>]
    IN  /\ ~last.received
        /\ routerContacts' = IF v.removed THEN routerContacts \ {c.nodeID}
                             ELSE routerContacts
        /\ _pubkeys' = IF v.key # NoKey THEN [_pubkeys EXCEPT ![c.nodeID] = v.key]
                       ELSE _pubkeys
        /\ counters' = IF r.count
                       THEN [counters EXCEPT ![c.nodeID] = @ + 1]
                       ELSE counters
        /\ last' = [received |-> TRUE, msg |-> m, contact |-> c, now |-> now,
                    err |-> v.err, stage |-> v.stage,
                    limiter |-> v.err = "none",
                    limited |-> v.err = "none" /\ isRequest(m) /\ isLimited(c.nodeID),
                    handled |-> r.next, sent |-> r.sent]
        /\ UNCHANGED allowLoopback
        /\ UNCHANGED notRecv

\* the record of the last delivery is dropped before the next one is observed
Forget ==
    /\ last.received
    /\ last' = [received |-> FALSE]
    /\ UNCHANGED <<_pubkeys, routerContacts, counters, allowLoopback>>
    /\ UNCHANGED notRecv

\* RateLimiter: the counters are cleared when the period ends
ResetCounters ==
    /\ counters' = [n \in NodeIDs |-> 0]
    /\ counters' # counters
    /\ UNCHANGED <<_pubkeys, routerContacts, allowLoopback, last>>
    /\ UNCHANGED notRecv

\* ---- the messages, contacts and clock readings explored ----
Nonce0 == 1000                  \* the earliest nonce explored
Ids == {<<1>>, <<2>>}
Nonces == {Nonce0, Nonce0 + 1}
Signatures == {Malformed} \union
              {Sign(k, Target(i, n)) : k \in Keys, i \in Ids, n \in Nonces}

Requests == [kind : {"request"}, method : Methods, id : Ids,
             nonce : Nonces, signature : Signatures]
Responses == [kind : {"response"}, method : {"none"}, id : Ids,
              nonce : Nonces, signature : Signatures]
Messages == Requests \union Responses

BadVersion == [major |-> 999, minor |-> 0, patch |-> 0, tag |-> ""]
Contact(n, v, a) == [nodeID |-> n, protocol |-> v, address |-> a, port |-> 1337]
Contacts == {Contact(n, v, a) : n \in NodeIDs, v \in {OwnVersion, BadVersion},
                                a \in {"10.0.0.1", "127.0.0.1"}}

Times == {Nonce0 + NONCE_EXPIRE, Nonce0 + NONCE_EXPIRE + 1}

RecvInit ==
    /\ _pubkeys = [n \in NodeIDs |-> NoKey]
    /\ routerContacts = NodeIDs
    /\ counters = [n \in NodeIDs |-> 0]
    /\ allowLoopback = FALSE
    /\ last = [received |-> FALSE]

\* any message, from contacts claiming the first nodeID
ReceiveAny ==
    \E m \in Messages, c \in {x \in Contacts : x.nodeID = "n1"}, now \in Times :
        Receive(m, c, now)

NextVerify == ReceiveAny \/ ResetCounters \/ Forget

InitVerify == MuxIdle /\ RecvInit /\ JoinIdle /\ RestIdle

SpecVerify == InitVerify /\ [][NextVerify]_vars

Age == last.now - last.msg.nonce
GoodSignature ==
    /\ last.msg.signature # Malformed
    /\ last.msg.signature.target = Target(last.msg.id, last.msg.nonce)
    /\ NodeID(last.msg.signature.key) = last.contact.nodeID
ExemptRequest ==
    isRequest(last.msg) /\ last.msg.method \in {"PROBE", "FIND_TUNNEL", "OPEN_TUNNEL"}
ValidationErrors == {"Protocol version is incompatible", "Invalid contact data supplied"}
SignatureErrors == {"Invalid signature supplied", "Signature verification failed"}

C4_Exempt ==
    last.received =>
        LET verr == _validateContact(last.contact) IN
        /\ ExemptRequest =>
              /\ last.stage # "contact"
              /\ last.err \notin ValidationErrors
              /\ Age > NONCE_EXPIRE => last.err = "Message signature expired"
              /\ (Age <= NONCE_EXPIRE /\ ~GoodSignature) => last.err \in SignatureErrors
              /\ (Age <= NONCE_EXPIRE /\ GoodSignature) => last.err = "none"
        /\ (verr # "none" /\ ~ExemptRequest) =>
              /\ last.err = verr
              /\ last.stage = "contact"

C4_Witness ==
    /\ last.received
    /\ last.msg.method = "OPEN_TUNNEL"
    /\ _validateContact(last.contact) = "Protocol version is incompatible"
    /\ last.err = "none"
    /\ last.handled

\* every stored key hashes to the nodeID it is stored under
C39_Verified ==
    \A n \in DOMAIN _pubkeys :
        _pubkeys[n] # NoKey => NodeID(_pubkeys[n]) = n

\* a delivery that is rejected leaves _pubkeys as it was
C39_Unchanged ==
    (last'.received /\ ~last.received /\ last'.err # "none") =>
        _pubkeys' = _pubkeys

\* C39: every entry _pubkeys[nodeID] is a key taken from a message whose
\* signature verification succeeded for that nodeID, and a message that
\* fails verification leaves _pubkeys unchanged.
C39_AsStated == [](C39_Verified) /\ [][C39_Unchanged]_vars

\* a message signed by another key was rejected and its key is stored under
\* the nodeID the contact claimed
C39_Witness ==
    /\ last.received
    /\ last.err = "Signature verification failed"
    /\ last.contact.nodeID = "n1"
    /\ last.msg.signature.key = "k2"
    /\ _pubkeys["n1"] = "k2"

\* ---- contact validation: versions, addresses, ports and the loopback
\* switch ----
ContactAt(n, v, a, p) == [Contact(n, v, a) EXCEPT !.port = p]
ValidateContacts ==
    {ContactAt(n, v, a, p) : n \in NodeIDs, v \in {OwnVersion, BadVersion},
                             a \in {"10.0.0.1", "127.0.0.1"}, p \in {0, 1337}}

\* process.env.STORJ_ALLOW_LOOPBACK set or not
ValidateInit ==
    /\ _pubkeys = [n \in NodeIDs |-> NoKey]
    /\ routerContacts = NodeIDs
    /\ counters = [n \in NodeIDs |-> 0]
    /\ allowLoopback \in BOOLEAN
    /\ last = [received |-> FALSE]

\* messages with one id and nonce, unsigned or signed over that id and nonce
MessagesOnce ==
    {m \in Messages : /\ m.id = <<1>> /\ m.nonce = Nonce0
                      /\ \/ m.signature = Malformed
                         \/ m.signature.target = Target(m.id, m.nonce)}

ReceiveValidated ==
    \E m \in MessagesOnce, c \in ValidateContacts :
        Receive(m, c, Nonce0 + NONCE_EXPIRE)

NextValidate == ReceiveValidated \/ ResetCounters \/ Forget

InitValidate == MuxIdle /\ ValidateInit /\ JoinIdle /\ RestIdle

SpecValidate == InitValidate /\ [][NextValidate]_vars

\* a compatible version and a valid address
ValidContact(c) ==
    isCompatibleVersion(c.protocol) /\ isValidContact(c, allowLoopback)

C40_Gone ==
    (last.received /\ ~ValidContact(last.contact)) =>
        last.contact.nodeID \notin routerContacts

C40_Step ==
    (~last.received /\ last'.received) =>
        IF ValidContact(last'.contact)
        THEN routerContacts' = routerContacts
        ELSE routerContacts' = routerContacts \ {last'.contact.nodeID}

\* C40: whenever _verifyMessage processes a message of a contact with an
\* incompatible version or an invalid address, the contact is removed from
\* the routing table, whatever the method, the exempt PROBE, FIND_TUNNEL and
\* OPEN_TUNNEL included; a valid compatible contact never causes a removal.
C40_Removal == [](C40_Gone) /\ [][C40_Step]_vars

\* an exempt request of a contact with port 0 passed verification and the
\* contact was removed all the same
C40_Witness ==
    /\ last.received
    /\ last.msg.method = "FIND_TUNNEL"
    /\ last.contact.port = 0 /\ last.contact.protocol = OwnVersion
    /\ last.contact.nodeID = "n2"
    /\ last.err = "none" /\ last.handled
    /\ routerContacts = {"n1"}

\* ---- the receive pipeline with two senders ----
MessagesSigned ==
    {m \in Messages : /\ m.nonce = Nonce0
                      /\ \/ m.signature = Malformed
                         \/ m.signature.target = Target(m.id, m.nonce)}

ReceiveSigned ==
    \E m \in MessagesSigned,
       c \in {x \in Contacts : x.protocol = OwnVersion} :
        Receive(m, c, Nonce0 + NONCE_EXPIRE)

NextRecv == ReceiveSigned \/ ResetCounters \/ Forget

SpecRecv == InitVerify /\ [][NextRecv]_vars

\* C5: in a delivery, a request of a limited contact reaches no handler,
\* leaves the counters alone and gets exactly one error response with its
\* id; a request of a contact that is not limited increments exactly that
\* contact's counter and proceeds; a response changes no counter and
\* proceeds; nothing gets past a failed verification.
C5_Step ==
    (~last.received /\ last'.received) =>
        LET m == last'.msg
            n == last'.contact.nodeID
            verified == last'.err = "none"
            wasLimited == counters[n] >= Limit
        IN  /\ last'.limiter <=> verified
            /\ ~verified =>
                  /\ ~last'.handled /\ last'.sent = <<>> /\ counters' = counters
            /\ (verified /\ isRequest(m) /\ wasLimited) =>
                  /\ ~last'.handled
                  /\ counters' = counters
                  /\ Len(last'.sent) = 1
                  /\ last'.sent[1].to = n
                  /\ last'.sent[1].id = m.id
                  /\ last'.sent[1].error = "Rate limit exceeded"
            /\ (verified /\ isRequest(m) /\ ~wasLimited) =>
                  /\ last'.handled
                  /\ last'.sent = <<>>
                  /\ counters' = [counters EXCEPT ![n] = @ + 1]
            /\ (verified /\ isResponse(m)) =>
                  /\ last'.handled
                  /\ last'.sent = <<>>
                  /\ counters' = counters

C5_RateLimit == [][C5_Step]_vars

C5_Witness ==
    /\ last.received
    /\ last.limited
    /\ Len(last.sent) = 1
    /\ counters[last.contact.nodeID] = Limit
    /\ \E n \in NodeIDs : counters[n] < Limit

(***************************************************************************)
(* Network: join, tunnel client set-up, overlay entry                      *)
(*                                                                         *)
(* The Network object and the callbacks it is waiting for are one record,  *)
(* net; every function below maps the record before a (synchronous) call   *)
(* to the record after it, so an action is the whole chain of calls that a *)
(* callback sets off.                                                      *)
(***************************************************************************)
MaxSeeds == 2           \* most seeds / neighbours explored
MaxTunnelers == 2       \* most tunnelers a FIND_TUNNEL response returns

Reverse(q) == [i \in 1..Len(q) |-> q[Len(q) + 1 - i]]
\* the lists 1..k for k up to n, each in both orders
Lists(n) == UNION {{[i \in 1..k |-> i], Reverse([i \in 1..k |-> i])} : k \in 0..n}

SeedLists == {[i \in 1..k |-> i] : k \in 0..MaxSeeds}   \* options.seeds
BridgeSeedLists == Lists(MaxSeeds)                      \* seeds a bridge returns
TunnelerLists == Lists(MaxTunnelers) \ {<<>>}

Op(op, a, b) == [op |-> op, a |-> a, b |-> b]
Ev(stage, what) == [stage |-> stage, what |-> what]
Log(s, ev) == [s EXCEPT !.log = Append(@, ev)]
Outcome(err) == IF err = "ok" THEN "ok" ELSE "err"

\* this._transport.send(contact, message, callback) with a request
Send(s, method, to, op) ==
    [s EXCEPT !.sent = Append(@, [m |-> method, to |-> to]),
              !.pend = @ \union {op}]

\* new Network(options): nothing has run yet
NetInit(seeds, bridge, tunnels) ==
    [join |-> "idle", ready |-> FALSE, isPublic |-> FALSE, serverUp |-> FALSE,
     seeds |-> seeds, bridge |-> bridge, tunnels |-> tunnels, maxTunnels |-> tunnels,
     pend |-> {}, neighbors |-> <<>>, found |-> <<>>, tunnelList |-> <<>>,
     tunnel |-> FALSE, alias |-> FALSE,
     client |-> [gen |-> 0, state |-> "none", listeners |-> {}],
     aliased |-> FALSE, ovs |-> <<>>,
     log |-> <<>>, sent |-> <<>>, setupCbs |-> <<>>, joinCbs |-> <<>>,
     listens |-> 0, announces |-> 0]

\* the callback given to join
JoinCallback(s, err) ==
    [s EXCEPT !.joinCbs = Append(@, err),
              !.log = Append(@, Ev("callback", Outcome(err)))]

\* Network.prototype._listenForTunnelers
_listenForTunnelers(s) ==
    [s EXCEPT !.listens = @ + 1,
              !.announces = IF s.tunnels > 0 THEN @ + 1 ELSE @]

\* onJoinComplete in Network.prototype.join
onJoinComplete(s, err) ==
    JoinCallback(IF s.isPublic
                 THEN _listenForTunnelers(Log(s, Ev("listen", "start")))
                 ELSE s,
                 err)

\* the callback of one _enterOverlay call
OverlayDone(s, i, err) ==
    LET s1 == [s EXCEPT !.ovs[i].result = err] IN
    IF s.ovs[i].cb = "join"
    THEN onJoinComplete(Log(s1, Ev("overlay", Outcome(err))), err)
    ELSE s1

\* self.connect(uri, ...) for the k-th seed of the list
Connect(s, i, k) ==
    [s EXCEPT !.pend = @ \union {Op("connect", i, k)},
              !.ovs[i].tried = Append(@, s.ovs[i].list[k])]

\* async.detectSeries: whether the series ends after the k-th of n items
DetectEndsAtLast(found, k, n) == k = n
DetectEnds(found, k, n) == found \/ k = n

\* the iterator callback and the final callback of _trySeeds
onConnect(s, i, k, ok) ==
    LET s1 == [s EXCEPT !.pend = @ \ {Op("connect", i, k)},
                        !.ovs[i].results = Append(@, ok),
                        !.ovs[i].detected = @ \/ ok]
    IN  IF DetectEnds(ok, k, Len(s.ovs[i].list))
        THEN OverlayDone(s1, i, IF s1.ovs[i].detected THEN "ok"
                                ELSE "Failed to join the network")
        ELSE Connect(s1, i, k + 1)

\* _trySeeds in Network.prototype._enterOverlay
_trySeeds(s, i) ==
    LET s1 == [s EXCEPT !.ovs[i].list = s.seeds] IN
    IF s.seeds = <<>>
    THEN OverlayDone(s1, i, "Failed to join the network")
    ELSE Connect(s1, i, 1)

\* Network.prototype._enterOverlay
_enterOverlay(s, cb) ==
    LET i == Len(s.ovs) + 1
        s0 == [s EXCEPT !.ovs = Append(@, [cb |-> cb, list |-> <<>>, tried |-> <<>>,
                                           results |-> <<>>, detected |-> FALSE,
                                           result |-> "pending"])]
        s1 == IF cb = "join" THEN Log(s0, Ev("overlay", "start")) ELSE s0
    IN  IF s.seeds # <<>> THEN _trySeeds(s1, i)
        ELSE IF ~s.bridge THEN OverlayDone(s1, i, "ok")
        ELSE [s1 EXCEPT !.pend = @ \union {Op("getContactList", i, 0)}]

\* the callback of bridge.getContactList in _enterOverlay
onContactList(s, i, r) ==
    LET s1 == [s EXCEPT !.pend = @ \ {Op("getContactList", i, 0)}] IN
    IF r.err
    THEN OverlayDone(s1, i, "Failed to discover seeds from bridge")
    ELSE _trySeeds([s1 EXCEPT !.seeds = r.seeds], i)

\* the callback join hands to _setupTunnelClient
SetupCallback(s, err) ==
    LET s1 == Log([s EXCEPT !.setupCbs = Append(@, err)], Ev("setup", Outcome(err))) IN
    IF err # "ok" THEN JoinCallback(s1, err) ELSE _enterOverlay(s1, "join")

\* tunnels[0] and tunnels.shift() in openTunnel
PickLast(list) == [to |-> list[Len(list)], rest |-> SubSeq(list, 1, Len(list) - 1)]
Pick(list) == [to |-> Head(list), rest |-> Tail(list)]

\* openTunnel in Network.prototype._establishTunnel
openTunnel(s) ==
    IF s.tunnelList = <<>>
    THEN SetupCallback(s, "Failed to establish tunnel, reason: No tunnelers were returned")
    ELSE LET p == Pick(s.tunnelList) IN
         Send([s EXCEPT !.tunnelList = p.rest], "OPEN_TUNNEL", p.to,
              Op("OPEN_TUNNEL", p.to, 0))

\* Network.prototype._establishTunnel(tunnels, callback)
_establishTunnel(s) ==
    openTunnel(Log([s EXCEPT !.tunnel = FALSE, !.alias = FALSE],
                   Ev("establish", "start")))

\* established in Network.prototype._establishTunnel
established(s) == s.tunnel /\ s.alias

\* the final callback of async.until in _establishTunnel
onEstablished(s) ==
    IF ~s.serverUp
    THEN SetupCallback(s, "Local transport not initialized, refusing to establish new tunnel")
    ELSE [s EXCEPT !.client = [gen |-> s.client.gen + 1, state |-> "connecting",
                               listeners |-> {"open", "close", "error"}]]

\* the response callback of OPEN_TUNNEL
onOpenTunnel(s, to, r) ==
    LET s0 == [s EXCEPT !.pend = @ \ {Op("OPEN_TUNNEL", to, 0)}]
        s1 == IF r = "err" THEN s0
              ELSE [s0 EXCEPT !.tunnel = r \in {"both", "tunnel"},
                              !.alias = r \in {"both", "alias"}]
    IN  IF established(s1) THEN onEstablished(s1) ELSE openTunnel(s1)

\* the final callback of async.detectSeries in _findTunnel
findDone(s) ==
    IF s.found = <<>>
    THEN SetupCallback(s, "Failed to find tunnels from neighbors")
    ELSE _establishTunnel([s EXCEPT !.tunnelList = s.found])

\* this._options.tunnels = this._transport._tunserver._options.maxTunnels = 0
KeepTunnels(s) == s
OverrideTunnels(s) == [s EXCEPT !.tunnels = 0, !.maxTunnels = 0]

\* Network.prototype._findTunnel
_findTunnel(s) ==
    LET s1 == Log([OverrideTunnels(s) EXCEPT !.found = <<>>],
                  Ev("findTunnel", "entered")) IN
    IF s1.neighbors = <<>>
    THEN SetupCallback(s1, "Could not find a neighbor to query for tunnels")
    ELSE Send(s1, "FIND_TUNNEL", s1.neighbors[1], Op("FIND_TUNNEL", 1, 0))

\* the response callback of FIND_TUNNEL sent to the k-th neighbour
onFindTunnel(s, k, r) ==
    LET s0 == [s EXCEPT !.pend = @ \ {Op("FIND_TUNNEL", k, 0)}]
        hit == ~r.err /\ r.tunnels # <<>>
        s1 == IF hit THEN [s0 EXCEPT !.found = @ \o r.tunnels] ELSE s0
    IN  IF DetectEnds(hit, k, Len(s.neighbors))
        THEN findDone(s1)
        ELSE Send(s1, "FIND_TUNNEL", s1.neighbors[k + 1], Op("FIND_TUNNEL", k + 1, 0))

\* _discoverIfReachable in _setupTunnelClient, with _requestProbe
_discoverIfReachable(s) ==
    Send(s, "PROBE", IF s.neighbors = <<>> THEN 0 ELSE s.neighbors[1],
         Op("PROBE", 0, 0))

\* whether the probe callback goes on to look for a tunnel: err || result.error
ProbeFailedAlways(r) == TRUE
ProbeFailed(r) == r \in {"err", "error"}

\* the response callback of PROBE
onProbe(s, r) ==
    LET s0 == Log([s EXCEPT !.pend = @ \ {Op("PROBE", 0, 0)}], Ev("probe", r)) IN
    IF ProbeFailed(r) THEN _findTunnel(s0)
    ELSE SetupCallback(_listenForTunnelers(s0), "ok")

\* Network.prototype._setupTunnelClient
_setupTunnelClient(s) ==
    LET s1 == Log(s, Ev("setup", "start")) IN
    IF s1.isPublic THEN SetupCallback(s1, "ok")
    ELSE LET s2 == [s1 EXCEPT !.neighbors = s1.seeds] IN
         IF s2.neighbors = <<>>
         THEN IF ~s2.bridge
              THEN SetupCallback(s2, "Could not find a neighbor to query for probe")
              ELSE [s2 EXCEPT !.pend = @ \union {Op("getInfo", 0, 0)}]
         ELSE _discoverIfReachable(s2)

\* the callback of bridge.getInfo in _setupTunnelClient
onGetInfo(s, r) ==
    LET s0 == [s EXCEPT !.pend = @ \ {Op("getInfo", 0, 0)}] IN
    IF r.err THEN SetupCallback(s0, "Failed to get seeds for probe")
    ELSE _discoverIfReachable([s0 EXCEPT !.neighbors = r.seeds])

\* the callback of manager.open in join
onManagerOpen(s, err) ==
    LET s0 == [s EXCEPT !.pend = @ \ {Op("manager.open", 0, 0)}] IN
    IF err # "ok" THEN JoinCallback(Log(s0, Ev("manager.open", "err")), err)
    ELSE _setupTunnelClient(Log(s0, Ev("manager.open", "ok")))

\* Network.prototype.join once the transport is ready
joinRun(s) ==
    [s EXCEPT !.join = "running",
              !.log = @ \o <<Ev("ready", "ok"), Ev("manager.open", "start")>>,
              !.pend = @ \union {Op("manager.open", 0, 0)}]

\* Network.prototype.join
join(s) ==
    IF ~s.ready THEN Log([s EXCEPT !.join = "waitReady"], Ev("ready", "start"))
    ELSE joinRun(Log(s, Ev("ready", "start")))

\* the 'open' listener of the tunnel client: the tunnel is tested
onTunnelOpen(s) ==
    [s EXCEPT !.client.state = "open",
              !.pend = @ \union {Op("check", s.client.gen, 0)}]

\* tunclient.close(): a client that is not open has nothing to close
tunclientClose(s, g) ==
    IF s.client.gen = g /\ s.client.state = "open"
    THEN [s EXCEPT !.client.state = "closing"]
    ELSE s

\* the callback of checker.check in the 'open' listener of client g
onCheck(s, g, ok) ==
    LET s0 == [s EXCEPT !.pend = @ \ {Op("check", g, 0)}] IN
    IF ~ok THEN tunclientClose(s0, g)
    ELSE SetupCallback(_listenForTunnelers([s0 EXCEPT !.aliased = TRUE]), "ok")

\* onTunnelClosed in _establishTunnel
onTunnelClosed(s) ==
    _establishTunnel([s EXCEPT !.client.state = "closed",
                               !.client.listeners = @ \ {"error"}])

\* onTunnelError in _establishTunnel
onTunnelError(s) ==
    _establishTunnel([s EXCEPT !.client.state = "errored",
                               !.client.listeners = {}])

\* Transport.prototype._open completing, then Network.prototype._onTransportOpen
onTransportOpen(s, pub) ==
    LET s1 == [s EXCEPT !.ready = TRUE, !.isPublic = pub, !.serverUp = TRUE] IN
    IF s.join = "waitReady" THEN joinRun(s1) ELSE s1

DefaultTunnels == 3     \* Network.DEFAULTS.tunnels
MaxReentries == 1       \* most inactivity re-entries explored

BridgeReplies(lists) ==
    {[err |-> TRUE, seeds |-> <<>>]} \union {[err |-> FALSE, seeds |-> l] : l \in lists}
FindReplies ==
    {[err |-> TRUE, tunnels |-> <<>>], [err |-> FALSE, tunnels |-> <<>>]}
        \union {[err |-> FALSE, tunnels |-> l] : l \in TunnelerLists}
OpenTunnelReplies == {"err", "both", "tunnel", "alias"}
ProbeReplies == {"err", "error", "ok"}

JoinInit ==
    net \in {NetInit(sd, br, tn) : sd \in SeedLists, br \in BOOLEAN, tn \in {0, DefaultTunnels}}

Join ==
    /\ net.join = "idle"
    /\ net' = join(net)
    /\ UNCHANGED notJoin

TransportOpen ==
    /\ ~net.ready
    /\ \E pub \in BOOLEAN : net' = onTransportOpen(net, pub)
    /\ UNCHANGED notJoin

\* the transport's server stops listening; only _establishTunnel looks at it,
\* when an OPEN_TUNNEL response arrives
TransportClose ==
    /\ \E op \in net.pend : op.op = "OPEN_TUNNEL"
    /\ net.serverUp
    /\ net' = [net EXCEPT !.serverUp = FALSE]
    /\ UNCHANGED notJoin

ManagerOpenDone ==
    /\ Op("manager.open", 0, 0) \in net.pend
    /\ \E err \in {"ok", "manager.open failed"} : net' = onManagerOpen(net, err)
    /\ UNCHANGED notJoin

BridgeInfoDone ==
    /\ Op("getInfo", 0, 0) \in net.pend
    /\ \E r \in BridgeReplies(BridgeSeedLists \ {<<>>}) : net' = onGetInfo(net, r)
    /\ UNCHANGED notJoin

ProbeDone ==
    /\ Op("PROBE", 0, 0) \in net.pend
    /\ \E r \in ProbeReplies : net' = onProbe(net, r)
    /\ UNCHANGED notJoin

FindTunnelDone ==
    /\ \E op \in net.pend, r \in FindReplies :
          /\ op.op = "FIND_TUNNEL"
          /\ net' = onFindTunnel(net, op.a, r)
    /\ UNCHANGED notJoin

OpenTunnelDone ==
    /\ \E op \in net.pend, r \in OpenTunnelReplies :
          /\ op.op = "OPEN_TUNNEL"
          /\ net' = onOpenTunnel(net, op.a, r)
    /\ UNCHANGED notJoin

TunnelOpen ==
    /\ net.client.state = "connecting"
    /\ "open" \in net.client.listeners
    /\ net' = onTunnelOpen(net)
    /\ UNCHANGED notJoin

TunnelClose ==
    /\ net.client.state \in {"connecting", "open", "closing"}
    /\ "close" \in net.client.listeners
    /\ net' = onTunnelClosed(net)
    /\ UNCHANGED notJoin

TunnelError ==
    /\ net.client.state \in {"connecting", "open", "closing"}
    /\ "error" \in net.client.listeners
    /\ net' = onTunnelError(net)
    /\ UNCHANGED notJoin

CheckDone ==
    /\ \E op \in net.pend, ok \in BOOLEAN :
          /\ op.op = "check"
          /\ net' = onCheck(net, op.a, ok)
    /\ UNCHANGED notJoin

ConnectDone ==
    /\ \E op \in net.pend, ok \in BOOLEAN :
          /\ op.op = "connect"
          /\ net' = onConnect(net, op.a, op.b, ok)
    /\ UNCHANGED notJoin

ContactListDone ==
    /\ \E op \in net.pend, r \in BridgeReplies(BridgeSeedLists) :
          /\ op.op = "getContactList"
          /\ net' = onContactList(net, op.a, r)
    /\ UNCHANGED notJoin

\* the inactivity timer set by _updateActivityCounter fires
Reentry ==
    /\ net.join = "running"
    /\ Cardinality({i \in DOMAIN net.ovs : net.ovs[i].cb = "noop"}) < MaxReentries
    /\ net' = _enterOverlay(net, "noop")
    /\ UNCHANGED notJoin

NextJoin ==
    \/ Join \/ TransportOpen \/ TransportClose \/ ManagerOpenDone
    \/ BridgeInfoDone \/ ProbeDone \/ FindTunnelDone \/ OpenTunnelDone
    \/ TunnelOpen \/ TunnelClose \/ TunnelError \/ CheckDone
    \/ ConnectDone \/ ContactListDone

InitJoin == MuxIdle /\ RecvIdle /\ JoinInit /\ RestIdle

SpecJoin == InitJoin /\ [][NextJoin]_vars

\* the tunnel set-up alone: seed connections and bridge contact lists stay
\* outstanding
NextTunnel ==
    \/ Join \/ TransportOpen \/ TransportClose \/ ManagerOpenDone
    \/ BridgeInfoDone \/ ProbeDone \/ FindTunnelDone \/ OpenTunnelDone
    \/ TunnelOpen \/ TunnelClose \/ TunnelError \/ CheckDone

SpecTunnel == InitJoin /\ [][NextTunnel]_vars

\* a tunnel client that is connecting or closing emits its next event
ClientSettles ==
    /\ net.client.state \in {"connecting", "closing"}
    /\ (TunnelOpen \/ TunnelClose \/ TunnelError)

\* every OPEN_TUNNEL request, tunnel event and tunnel test eventually resolves
SpecTunnelLive ==
    /\ SpecTunnel
    /\ WF_vars(OpenTunnelDone)
    /\ WF_vars(CheckDone)
    /\ WF_vars(ClientSettles)

\* overlay entry alone: probes and bridge seed lookups stay outstanding
NextOverlay ==
    \/ Join \/ TransportOpen \/ ManagerOpenDone
    \/ ConnectDone \/ ContactListDone \/ Reentry

SpecOverlay == InitJoin /\ [][NextOverlay]_vars

\* the seed connection attempts of the i-th _enterOverlay call still in flight
ConnectsInFlight(i) == {op \in net.pend : op.op = "connect" /\ op.a = i}

\* C7: every _enterOverlay call that has a non-empty seed list attempts the
\* seeds in list order, one at a time (an attempt starts only when all earlier
\* ones have answered), attempts none after the first seed that connects, and
\* calls back with 'Failed to join the network' exactly when every seed of the
\* list was attempted and failed, and with no error exactly when a seed
\* connected.
C7_SeedsInSeries ==
    \A i \in DOMAIN net.ovs :
        LET o == net.ovs[i] IN
        o.list # <<>> =>
            /\ IsPrefix(o.tried, o.list)
            /\ Cardinality(ConnectsInFlight(i)) <= 1
            /\ \A op \in ConnectsInFlight(i) :
                  op.b = Len(o.tried) /\ Len(o.results) = Len(o.tried) - 1
            /\ ConnectsInFlight(i) = {} => Len(o.results) = Len(o.tried)
            /\ \A k \in DOMAIN o.results : o.results[k] => Len(o.tried) = k
            /\ o.result \in {"pending", "ok", "Failed to join the network"}
            /\ (o.result = "pending") <=> (ConnectsInFlight(i) # {})
            /\ (o.result = "Failed to join the network") <=>
                  /\ Len(o.results) = Len(o.list)
                  /\ \A k \in DOMAIN o.results : ~o.results[k]
            /\ (o.result = "ok") <=>
                  \E k \in DOMAIN o.results : o.results[k]

\* the first seed failed, the second connected, and the call reported success
\* while another _enterOverlay call was still trying its seeds
C7_Witness ==
    \E i, j \in DOMAIN net.ovs :
        /\ i # j
        /\ net.ovs[i].results = <<FALSE, TRUE>>
        /\ net.ovs[i].result = "ok"
        /\ ConnectsInFlight(j) # {}

\* positions of an event in the record of join's stages
LogIdx(ev) == {i \in DOMAIN net.log : net.log[i] = ev}
Precedes(a, b) == \A j \in LogIdx(b) : \E i \in LogIdx(a) : i < j
JoinStages == {"ready", "manager.open", "setup", "overlay", "listen"}
StageErrors == {Ev("manager.open", "err"), Ev("setup", "err")}
OverlayEnded(j) ==
    \E i \in 1..(j - 1) : net.log[i] \in {Ev("overlay", "ok"), Ev("overlay", "err")}

\* C6: join's stages run in the order ready, manager.open, tunnel client
\* set-up, overlay entry, listening for tunnelers (on a public transport
\* only), callback: each stage starts once and only after the stage before it
\* has completed, the callback comes after the last stage or after a failed
\* stage, and once manager.open or the tunnel client set-up has reported an
\* error the callback gets an error and no stage is started afterwards.
C6_AsStated ==
    /\ Precedes(Ev("ready", "ok"), Ev("manager.open", "start"))
    /\ Precedes(Ev("manager.open", "ok"), Ev("setup", "start"))
    /\ Precedes(Ev("setup", "ok"), Ev("overlay", "start"))
    /\ \A j \in LogIdx(Ev("listen", "start")) : net.isPublic /\ OverlayEnded(j)
    /\ \A st \in JoinStages : Cardinality(LogIdx(Ev(st, "start"))) <= 1
    /\ \A j \in DOMAIN net.log :
          net.log[j].stage = "callback" =>
              \/ \E i \in 1..(j - 1) : net.log[i] \in StageErrors
              \/ /\ OverlayEnded(j)
                 /\ net.isPublic => \E i \in 1..(j - 1) : net.log[i] = Ev("listen", "start")
    /\ \A i \in DOMAIN net.log :
          net.log[i] \in StageErrors =>
              /\ \E j \in (i + 1)..Len(net.log) : net.log[j] = Ev("callback", "err")
              /\ \A j \in (i + 1)..Len(net.log) : net.log[j].what # "start"

\* the same, as long as the tunnel client set-up has called back at most once
C6_SingleSetupCallback == Len(net.setupCbs) <= 1 => C6_AsStated

\* a public node whose join ran every stage, and a tunnelled node whose
\* set-up failed
C6_Witness ==
    \/ /\ net.isPublic
       /\ LogIdx(Ev("listen", "start")) # {}
       /\ net.joinCbs = <<"ok">>
    \/ /\ ~net.isPublic
       /\ net.setupCbs = <<"Failed to find tunnels from neighbors">>

\* C8: the callback given to join is invoked at most once.
C8_AsStated == Len(net.joinCbs) <= 1

\* join completed on an established tunnel, the tunnel then closed with no
\* tunneler left, and the callback ran again with the error
C8_Witness ==
    net.joinCbs = <<"ok", "Failed to establish tunnel, reason: No tunnelers were returned">>

\* the requests of one method sent so far, and those still unanswered
SentOf(m) == SelectSeq(net.sent, LAMBDA e : e.m = m)
Targets(m) == [i \in 1..Len(SentOf(m)) |-> SentOf(m)[i].to]
Pending(m) == {op \in net.pend : op.op = m}
ProbeReplied(r) == LogIdx(Ev("probe", r)) # {}
OneProbeToFirstNeighbour ==
    /\ net.neighbors # <<>>
    /\ Targets("PROBE") = <<net.neighbors[1]>>

\* what _setupTunnelClient does on a public transport and after the probe
C10_Rest ==
    /\ net.isPublic =>
          /\ net.sent = <<>>
          /\ \A k \in DOMAIN net.setupCbs : net.setupCbs[k] = "ok"
    /\ Len(Targets("PROBE")) <= 1
    /\ IsPrefix(Targets("FIND_TUNNEL"), net.neighbors)
    /\ Cardinality(Pending("FIND_TUNNEL")) <= 1
    /\ \A op \in Pending("FIND_TUNNEL") : op.a = Len(Targets("FIND_TUNNEL"))
    /\ net.found # <<>> => Pending("FIND_TUNNEL") = {}
    /\ Targets("FIND_TUNNEL") # <<>> =>
          /\ ProbeReplied("err") \/ ProbeReplied("error")
          /\ Pending("PROBE") = {}
    /\ ProbeReplied("ok") =>
          /\ Targets("FIND_TUNNEL") = <<>>
          /\ Targets("OPEN_TUNNEL") = <<>>

OpenTunnelPending(s) == {op \in s.pend : op.op = "OPEN_TUNNEL"}
ClientLive(s) == s.client.state \in {"connecting", "open", "closing"}
Establishing ==
    \/ OpenTunnelPending(net) # {}
    \/ net.client.state \in {"connecting", "closing"}
    \/ net.client.state = "open" /\ Op("check", net.client.gen, 0) \in net.pend
NoTunnelers == "Failed to establish tunnel, reason: No tunnelers were returned"

\* OPEN_TUNNEL has gone to a prefix of the tunnelers found, in their order,
\* each once, one request at a time and none while a tunnel client is alive
C9_Order ==
    /\ Targets("OPEN_TUNNEL") \o net.tunnelList = net.found
    /\ \A i, j \in DOMAIN Targets("OPEN_TUNNEL") :
          i # j => Targets("OPEN_TUNNEL")[i] # Targets("OPEN_TUNNEL")[j]
    /\ Cardinality(OpenTunnelPending(net)) <= 1
    /\ ClientLive(net) => OpenTunnelPending(net) = {}

\* a response with both a tunnel and an alias sends nothing further; a
\* response without them, a closed tunnel and a failed tunnel send OPEN_TUNNEL
\* to the next tunneler, or report the error when none is left
C9_Step ==
    LET answered == OpenTunnelPending(net) # {}
                    /\ OpenTunnelPending(net') # OpenTunnelPending(net)
        lost == ClientLive(net) /\ net'.client.state \in {"closed", "errored"}
    IN  /\ (answered /\ established(net')) => net'.sent = net.sent
        /\ (lost \/ (answered /\ ~established(net'))) =>
              IF net.tunnelList = <<>>
              THEN /\ net'.sent = net.sent
                   /\ net'.setupCbs = Append(net.setupCbs, NoTunnelers)
              ELSE /\ net'.sent = Append(net.sent, [m |-> "OPEN_TUNNEL",
                                                     to |-> Head(net.tunnelList)])
                   /\ net'.setupCbs = net.setupCbs

\* C9: _establishTunnel sends OPEN_TUNNEL to the tunnelers found in list
\* order, each at most once over all attempts, and nothing more once a
\* response brings a tunnel and an alias; a tunnel that closes, fails or fails
\* its test is followed by a new attempt with the remaining tunnelers, and an
\* exhausted list by the error 'Failed to establish tunnel, reason: No
\* tunnelers were returned'; when every request, tunnel event and tunnel test
\* resolves, an establishment under way ends with the callback called.
C9_EstablishTunnel ==
    /\ []C9_Order
    /\ [][C9_Step]_vars
    /\ (net.client.state = "closing") ~> (net.client.state \in {"closed", "errored"})
    /\ Establishing ~> (~Establishing /\ net.setupCbs # <<>>)

\* the first tunnel was lost and the second tunneler's tunnel is open
C9_Witness ==
    /\ Targets("OPEN_TUNNEL") = <<2, 1>>
    /\ net.client.gen = 2
    /\ net.client.state = "open"
    /\ net.setupCbs # <<>>

\* C11: once _findTunnel has been entered, options.tunnels and the tunnel
\* server's maxTunnels are 0 in every later state and the announce loop of
\* _listenForTunnelers has never been started.
C11_NoRelay ==
    LogIdx(Ev("findTunnel", "entered")) # {} =>
        /\ net.tunnels = 0
        /\ net.maxTunnels = 0
        /\ net.announces = 0

\* a node that looked for a tunnel, got one, and listens for tunnelers
C11_Witness ==
    /\ LogIdx(Ev("findTunnel", "entered")) # {}
    /\ net.client.state = "open"
    /\ net.listens > 0
    /\ net.announces = 0

(***************************************************************************)
(* Network: the tunneler bucket kept by _listenForTunnelers                *)
(***************************************************************************)
K == 2                  \* capacity of a kad.Bucket explored
MaxClock == 2           \* latest Date.now() explored
TunnelerIDs == 1..(K + 2)

\* kad.Bucket: contacts ordered by lastSeen
hasContact(b, id) == \E i \in DOMAIN b : b[i].nodeID = id
sortedIndex(b, t) == Cardinality({i \in DOMAIN b : b[i].lastSeen < t}) + 1
InsertAt(b, i, c) == SubSeq(b, 1, i - 1) \o <<c>> \o SubSeq(b, i, Len(b))
addContact(b, c) ==
    IF Len(b) = K THEN [ok |-> FALSE, bucket |-> b]
    ELSE [ok |-> TRUE,
          bucket |-> IF hasContact(b, c.nodeID) THEN b
                     ELSE InsertAt(b, sortedIndex(b, c.lastSeen), c)]
removeContact(b, id) == SelectSeq(b, LAMBDA e : e.nodeID # id)

\* the subscriber of the 'available' topic
onAvailableNoEvict(b, c) == addContact(b, c).bucket
onAvailable(b, c) ==
    IF ~addContact(b, c).ok
    THEN addContact(removeContact(b, b[1].nodeID), c).bucket
    ELSE addContact(b, c).bucket

\* the subscriber of the 'unavailable' topic
onUnavailable(b, c) == removeContact(b, c.nodeID)

TunInit == tun = [used |-> TRUE, bucket |-> <<>>, now |-> 0,
                  last |-> [op |-> "none", id |-> 0, before |-> <<>>]]

\* Contact(contact): a contact is stamped with the time it is built
Available ==
    /\ \E id \in TunnelerIDs :
          tun' = [tun EXCEPT
                    !.bucket = onAvailable(@, [nodeID |-> id, lastSeen |-> tun.now]),
                    !.last = [op |-> "AVAIL", id |-> id, before |-> tun.bucket]]
    /\ UNCHANGED notTun

Unavailable ==
    /\ \E id \in TunnelerIDs :
          tun' = [tun EXCEPT
                    !.bucket = onUnavailable(@, [nodeID |-> id, lastSeen |-> tun.now]),
                    !.last = [op |-> "UNAVAIL", id |-> id, before |-> tun.bucket]]
    /\ UNCHANGED notTun

TunTick ==
    /\ tun.now < MaxClock
    /\ tun' = [tun EXCEPT !.now = @ + 1]
    /\ UNCHANGED notTun

NextTunnelers == Available \/ Unavailable \/ TunTick

InitTunnelers == MuxIdle /\ RecvIdle /\ JoinIdle /\ TunInit
                 /\ RtIdle /\ ActIdle /\ UtilIdle /\ UpIdle /\ RamIdle /\ MoreIdle

SpecTunnelers == InitTunnelers /\ [][NextTunnelers]_vars

\* C12: the tunneler bucket never holds more than K contacts nor a nodeID
\* twice; right after an AVAIL publication of C, C is in the bucket, and if
\* the bucket was full without C then exactly the contact at index 0 was
\* evicted; right after an UNAVAIL publication of C, C is not in the bucket
\* and the other entries are as before.
C12_TunnelerBucket ==
    LET b == tun.bucket
        before == tun.last.before
        others == SelectSeq(b, LAMBDA e : e.nodeID # tun.last.id)
    IN  /\ Len(b) <= K
        /\ \A i, j \in DOMAIN b : i # j => b[i].nodeID # b[j].nodeID
        /\ tun.last.op = "AVAIL" =>
              /\ hasContact(b, tun.last.id)
              /\ (Len(before) = K /\ ~hasContact(before, tun.last.id)) =>
                    others = Tail(before)
        /\ tun.last.op = "UNAVAIL" =>
              /\ ~hasContact(b, tun.last.id)
              /\ b = SelectSeq(before, LAMBDA e : e.nodeID # tun.last.id)

\* an AVAIL publication of a new contact reached a full bucket
C12_Witness ==
    /\ tun.last.op = "AVAIL"
    /\ Len(tun.last.before) = K
    /\ ~hasContact(tun.last.before, tun.last.id)
    /\ Len(tun.bucket) = K

(***************************************************************************)
(* Network: the routing table cleaner                                      *)
(***************************************************************************)
MaxBuckets == 2         \* most router buckets explored
MaxBucketLen == 2       \* most contacts per bucket explored

\* a good contact, one of an incompatible version, one on the loopback address
ContactKinds ==
    {[protocol |-> OwnVersion, address |-> "104.200.143.243", port |-> 1337],
     [protocol |-> BadVersion, address |-> "104.200.143.243", port |-> 1337],
     [protocol |-> OwnVersion, address |-> "127.0.0.1", port |-> 1337]}
WithID(kind, id) ==
    [nodeID |-> id, protocol |-> kind.protocol, address |-> kind.address,
     port |-> kind.port]
\* the buckets of key k: any kinds, nodeIDs unique over the table
BucketsOf(k) ==
    {[i \in 1..Len(q) |-> WithID(q[i], k * (MaxBucketLen + 1) + i)] :
        q \in SeqsUpTo(ContactKinds, MaxBucketLen)}
Tables ==
    UNION {{t \in [1..n -> UNION {BucketsOf(k) : k \in 1..n}] :
               \A k \in 1..n : t[k] \in BucketsOf(k)} : n \in 1..MaxBuckets}

\* !isValidContact || !isValidProtocol
ShouldDropBoth(c, loopback) ==
    ~isValidContact(c, loopback) /\ ~isCompatibleVersion(c.protocol)
ShouldDrop(c, loopback) ==
    ~isValidContact(c, loopback) \/ ~isCompatibleVersion(c.protocol)

\* the inner loop over bucket.getContactList(), a copy of the bucket's list
RECURSIVE CleanBucket(_, _, _, _)
CleanBucket(list, i, bucket, loopback) ==
    IF i > Len(list) THEN [bucket |-> bucket, dropped |-> <<>>]
    ELSE IF ShouldDrop(list[i], loopback)
    THEN LET rest == CleanBucket(list, i + 1,
                                 removeContact(bucket, list[i].nodeID), loopback)
         IN  [bucket |-> rest.bucket, dropped |-> <<list[i]>> \o rest.dropped]
    ELSE CleanBucket(list, i + 1, bucket, loopback)

\* the dropped contacts of buckets k..n, in key order
RECURSIVE DroppedFrom(_, _, _)
DroppedFrom(buckets, k, loopback) ==
    IF k > Len(buckets) THEN <<>>
    ELSE CleanBucket(buckets[k], 1, buckets[k], loopback).dropped
             \o DroppedFrom(buckets, k + 1, loopback)

\* Network.prototype._cleanRoutingTable
_cleanRoutingTable(buckets, loopback) ==
    [buckets |-> [k \in DOMAIN buckets |->
                     CleanBucket(buckets[k], 1, buckets[k], loopback).bucket],
     dropped |-> DroppedFrom(buckets, 1, loopback)]

RtInit ==
    rt \in {[used |-> TRUE, buckets |-> t, loopback |-> l, cleaned |-> FALSE,
             before |-> t, dropped |-> <<>>] : t \in Tables, l \in BOOLEAN}

CleanRoutingTable ==
    /\ rt' = [rt EXCEPT
                !.buckets = _cleanRoutingTable(rt.buckets, rt.loopback).buckets,
                !.dropped = _cleanRoutingTable(rt.buckets, rt.loopback).dropped,
                !.before = rt.buckets,
                !.cleaned = TRUE]
    /\ UNCHANGED notRt

NextClean == CleanRoutingTable

InitClean == MuxIdle /\ RecvIdle /\ JoinIdle /\ TunIdle /\ RtInit
             /\ ActIdle /\ UtilIdle /\ UpIdle /\ RamIdle /\ MoreIdle

SpecClean == InitClean /\ [][NextClean]_vars

\* C13: after a run of _cleanRoutingTable every contact left in a bucket has
\* a valid address and a compatible version, every contact that was valid and
\* compatible is still in its bucket, and the returned list holds exactly the
\* removed contacts, each once.
C13_CleanRoutingTable ==
    rt.cleaned =>
        LET Good(c) == isValidContact(c, rt.loopback) /\ isCompatibleVersion(c.protocol)
            In(q) == {q[i] : i \in DOMAIN q}
            removed == UNION {In(rt.before[k]) \ In(rt.buckets[k]) : k \in DOMAIN rt.before}
        IN  /\ DOMAIN rt.buckets = DOMAIN rt.before
            /\ \A k \in DOMAIN rt.buckets :
                  /\ \A c \in In(rt.buckets[k]) : Good(c)
                  /\ \A c \in In(rt.before[k]) : Good(c) => c \in In(rt.buckets[k])
                  /\ In(rt.buckets[k]) \subseteq In(rt.before[k])
            /\ In(rt.dropped) = removed
            /\ Len(rt.dropped) = Cardinality(removed)

\* two adjacent bad contacts followed the cleaning of a table of two buckets
C13_Witness ==
    /\ rt.cleaned
    /\ Len(rt.before) = 2
    /\ \E k \in DOMAIN rt.before :
          /\ Len(rt.before[k]) = 2
          /\ rt.buckets[k] = <<>>
    /\ \E k \in DOMAIN rt.before : rt.buckets[k] # <<>>

(***************************************************************************)
(* utils: isCompatibleVersion and isValidContact                           *)
(***************************************************************************)
\* semver.inc(version, 'patch') and version + '-' + tag
IncPatch(v) == [v EXCEPT !.patch = @ + 1, !.tag = ""]
WithTag(v, tag) == [v EXCEPT !.tag = tag]

Versions == [major : {0, 1, 999}, minor : {0, 9, 10}, patch : {0, 1, 2},
             tag : {"", "buildtag", "beta"}]
UtilContacts == [address : {"127.0.0.1", "104.200.143.243", "some.domain.name"},
                 port : {0, 80, 1337, 65535}]

UtilInit == util = [used |-> TRUE, fn |-> "none"]

CallIsCompatibleVersion ==
    /\ \E v \in Versions :
          util' = [used |-> TRUE, fn |-> "isCompatibleVersion", version |-> v,
                   out |-> isCompatibleVersion(v)]
    /\ UNCHANGED notUtil

CallIsValidContact ==
    /\ \E c \in UtilContacts, l \in BOOLEAN :
          util' = [used |-> TRUE, fn |-> "isValidContact", contact |-> c,
                   loopback |-> l, out |-> isValidContact(c, l)]
    /\ UNCHANGED notUtil

NextUtils == CallIsCompatibleVersion \/ CallIsValidContact

InitUtils == MuxIdle /\ RecvIdle /\ JoinIdle /\ TunIdle /\ RtIdle /\ ActIdle
             /\ UtilInit /\ UpIdle /\ RamIdle /\ MoreIdle

SpecUtils == InitUtils /\ [][NextUtils]_vars

\* C14: isCompatibleVersion(v) is true exactly when v has the major, the
\* minor and the tag of the node's own version, whatever its patch: the own
\* version and the own version with its patch incremented are compatible,
\* '999.0.0' and the own version with '-buildtag' are not.
C14_CompatibleVersion ==
    util.fn = "isCompatibleVersion" =>
        LET v == util.version IN
        /\ util.out <=> /\ v.major = OwnVersion.major
                        /\ v.minor = OwnVersion.minor
                        /\ v.tag = OwnVersion.tag
        /\ v \in {OwnVersion, IncPatch(OwnVersion)} => util.out
        /\ v \in {BadVersion, WithTag(OwnVersion, "buildtag")} => ~util.out

\* the own version with its patch incremented was found compatible
C14_Witness ==
    /\ util.fn = "isCompatibleVersion"
    /\ util.version = IncPatch(OwnVersion)
    /\ util.out

\* C15: isValidContact is false when the port is 0, false for a loopback
\* address unless loopback is allowed, and true for a public address or a
\* hostname with a port above 0 and for a loopback address with a port above
\* 0 when loopback is allowed.
C15_ValidContact ==
    util.fn = "isValidContact" =>
        LET c == util.contact IN
        /\ c.port = 0 => ~util.out
        /\ (c.address = "127.0.0.1" /\ ~util.loopback) => ~util.out
        /\ (c.address # "127.0.0.1" /\ c.port > 0) => util.out
        /\ (c.address = "127.0.0.1" /\ c.port > 0 /\ util.loopback) => util.out

\* a loopback contact was refused because loopback is not allowed
C15_Witness ==
    /\ util.fn = "isValidContact"
    /\ util.contact = [address |-> "127.0.0.1", port |-> 1337]
    /\ ~util.loopback
    /\ ~util.out

(***************************************************************************)
(* Network: the inactivity re-entry countdown                              *)
(***************************************************************************)
NET_REENTRY == 600000   \* constants.NET_REENTRY, in ms
MaxQuanta == 7          \* time explored, in thirds of NET_REENTRY
MaxMessages == 3        \* most received messages explored
Quantum == NET_REENTRY \div 3

ActInit ==
    act = [used |-> TRUE, joined |-> FALSE, joinedAt |-> 0, now |-> 0,
           timers |-> {}, nextId |-> 1, _reentranceCountdown |-> 0,
           received |-> <<>>, fired |-> <<>>]

\* clearTimeout(this._reentranceCountdown)
keepTimeout(timers, handle) == timers
clearTimeout(timers, handle) == {t \in timers : t.id # handle}

\* Network.prototype._updateActivityCounter, at time a.now
_updateActivityCounter(a) ==
    [a EXCEPT !.timers = clearTimeout(@, a._reentranceCountdown)
                             \union {[id |-> a.nextId, due |-> a.now + NET_REENTRY]},
              !._reentranceCountdown = a.nextId,
              !.nextId = @ + 1]

\* join installs the hooks, among them after('receive', _updateActivityCounter)
ActJoin ==
    /\ ~act.joined
    /\ act' = [act EXCEPT !.joined = TRUE, !.joinedAt = act.now]
    /\ UNCHANGED notAct

\* a message has passed the receive hooks: the 'after receive' hook runs
ActReceive ==
    /\ act.joined
    /\ Len(act.received) < MaxMessages
    /\ act' = [_updateActivityCounter(act) EXCEPT !.received = Append(@, act.now)]
    /\ UNCHANGED notAct

\* a countdown expires: _enterOverlay(utils.noop) runs
ActFire ==
    /\ \E t \in act.timers :
          /\ t.due <= act.now
          /\ act' = [act EXCEPT !.timers = @ \ {t},
                                !.fired = Append(@, [at |-> act.now,
                                                     received |-> act.received])]
    /\ UNCHANGED notAct

\* time passes, no further than the next expiry
ActTick ==
    /\ act.now < MaxQuanta * Quantum
    /\ \A t \in act.timers : t.due > act.now
    /\ act' = [act EXCEPT !.now = @ + Quantum]
    /\ UNCHANGED notAct

NextActivity == ActJoin \/ ActReceive \/ ActFire \/ ActTick

InitActivity == MuxIdle /\ RecvIdle /\ JoinIdle /\ TunIdle /\ RtIdle /\ ActInit
                /\ UtilIdle /\ UpIdle /\ RamIdle /\ MoreIdle

SpecActivity == InitActivity /\ [][NextActivity]_vars

\* the time of the most recent entry of a list of times, or none
LastOf(times, none) == IF times = <<>> THEN none ELSE times[Len(times)]
FiredAfter(t) == \E i \in DOMAIN act.fired : act.fired[i].at > t
OneCountdown == Cardinality(act.timers) <= 1
\* no re-entry fires less than NET_REENTRY after the latest message before it
NeverEarly ==
    \A i \in DOMAIN act.fired :
        act.fired[i].received # <<>>
        /\ act.fired[i].at - LastOf(act.fired[i].received, 0) >= NET_REENTRY

\* C16 as stated: whenever a joined node has gone NET_REENTRY without a
\* received message (since its last message, or since it joined when it has
\* received none) overlay entry has been re-run; a re-entry never comes less
\* than NET_REENTRY after the latest received message; and at most one
\* countdown is pending.
C16_AsStated ==
    /\ (act.joined /\ act.now - LastOf(act.received, act.joinedAt) > NET_REENTRY) =>
          FiredAfter(LastOf(act.received, act.joinedAt))
    /\ NeverEarly
    /\ OneCountdown

\* C16: the countdown exists only once a message has been received: whenever
\* NET_REENTRY has passed since the latest received message, overlay entry
\* has been re-run since that message; a re-entry never comes less than
\* NET_REENTRY after the latest received message; and at most one countdown
\* is pending.
C16_Reentry ==
    /\ (act.received # <<>> /\ act.now - LastOf(act.received, 0) > NET_REENTRY) =>
          FiredAfter(LastOf(act.received, 0))
    /\ NeverEarly
    /\ OneCountdown

\* a countdown was restarted by a second message and expired NET_REENTRY
\* after it
C16_Witness ==
    /\ Len(act.received) = 2
    /\ act.received[2] > act.received[1]
    /\ Len(act.fired) = 1
    /\ act.fired[1].at = act.received[2] + NET_REENTRY

(***************************************************************************)
(* BridgeClient: storeFileInBucket and its shard upload tasks              *)
(***************************************************************************)
MaxUploadShards == 2    \* most shards of a file explored
MaxConcurrency == 2     \* largest upload concurrency explored
MaxRetries == 1         \* largest options.transferRetries explored
MaxFarmers == 2         \* farmers the bridge can hand out contracts for
Farmers == 1..MaxFarmers

\* finished counts the 'finish' events handled for the shard
NewShard == [st |-> "none", tmp |-> FALSE, transferRetries |-> 0,
             excludeFarmers |-> <<>>, ptrs |-> <<>>, finished |-> 0]

\* new UploadState(...) in storeFileInBucket
UploadState(n, c, r) ==
    [used |-> TRUE, phase |-> "new", numShards |-> n, concurrency |-> c,
     transferRetries |-> r, demuxed |-> 0, queue |-> <<>>, cleanQueue |-> <<>>,
     completed |-> 0, shards |-> [i \in 1..n |-> NewShard], cbs |-> <<>>,
     posts |-> 0]

\* tasks a worker was started for and whose done() has not been called
Workers(u) == {i \in DOMAIN u.shards :
                  u.shards[i].st \in {"writing", "adding", "transferring",
                                      "failed", "broken"}}

\* state.callback(err)
Callback(u, err) == [u EXCEPT !.cbs = Append(@, err)]

\* UploadState.prototype.cleanup: unlink the files named in cleanQueue
Elems(q) == {q[i] : i \in DOMAIN q}
cleanupNothing(u) == u
cleanup(u) ==
    [u EXCEPT !.shards = [i \in DOMAIN u.shards |->
                             IF i \in Elems(u.cleanQueue)
                             THEN [u.shards[i] EXCEPT !.tmp = FALSE]
                             ELSE u.shards[i]]]

\* BridgeClient.prototype._handleShardStream: the tmp file is created and the
\* task queued
_handleShardStream(u, i) ==
    [u EXCEPT !.demuxed = i,
              !.shards[i].st = "queued",
              !.shards[i].tmp = TRUE,
              !.queue = Append(@, i)]

\* BridgeClient.prototype._shardUploadWorker
_shardUploadWorker(u, i) ==
    [u EXCEPT !.queue = Tail(@),
              !.cleanQueue = Append(@, i),
              !.shards[i].st = "writing"]

\* BridgeClient.prototype._handleShardTmpFileFinish up to the request to the
\* bridge; reading a tmp file that was unlinked ends the task
_handleShardTmpFileFinish(u, i) ==
    IF ~u.shards[i].tmp THEN [u EXCEPT !.shards[i].st = "broken"]
    ELSE [u EXCEPT !.shards[i].st = "adding"]

\* meta.transferRetries < self._options.transferRetries
MayRetryOnceMore(retries, limit) == retries <= limit
MayRetry(retries, limit) == retries < limit

\* self._transferShard(emitter, meta.tmpName, pointer)
_transferShard(u, i) ==
    [u EXCEPT !.shards[i].ptrs[Len(u.shards[i].ptrs)].starts = @ + 1]

\* BridgeClient.prototype._startTransfer
_startTransfer(u, i, farmer) ==
    _transferShard([u EXCEPT !.shards[i].st = "transferring",
                             !.shards[i].ptrs =
                                 Append(@, [farmer |-> farmer, starts |-> 0,
                                            exclude |-> u.shards[i].excludeFarmers])],
                   i)

\* the callback of addShardToFileStagingFrame
onAddShard(u, i, r) ==
    IF r.err
    THEN Callback(cleanup([u EXCEPT !.shards[i].st = "failed"]), "addShard failed")
    ELSE _startTransfer(u, i, r.farmer)

\* the 'retry' listener of _startTransfer
onRetry(u, i) ==
    LET sh == u.shards[i] IN
    IF MayRetry(sh.transferRetries, u.transferRetries)
    THEN _transferShard([u EXCEPT !.shards[i].transferRetries = @ + 1], i)
    ELSE _handleShardTmpFileFinish(
             [u EXCEPT !.shards[i].excludeFarmers =
                           Append(@, sh.ptrs[Len(sh.ptrs)].farmer),
                       !.shards[i].transferRetries = 0],
             i)

\* state.completed++; done()
Completed(u, i) ==
    [u EXCEPT !.completed = @ + 1, !.shards[i].st = "done",
              !.shards[i].finished = @ + 1]

\* self._request('POST', '/buckets/' + state.bucketId + '/files', ...)
PostEntry(u) == [u EXCEPT !.phase = "entry", !.posts = @ + 1]

\* BridgeClient.prototype._shardTransferComplete
_shardTransferCompleteEager(u, i) == PostEntry(cleanup(Completed(u, i)))
_shardTransferComplete(u, i) ==
    LET u1 == Completed(u, i) IN
    IF u1.completed = u1.numShards
    THEN PostEntry(cleanup(u1))
    ELSE u1

UpInit ==
    up \in {UploadState(n, c, r) : n \in 1..MaxUploadShards,
                                   c \in 1..MaxConcurrency, r \in 0..MaxRetries}

\* replies of the bridge to a request for a pointer: an error, or a contract
\* with a farmer outside the exclude list
PointerReplies(exclude) ==
    {[err |-> TRUE, farmer |-> 0]} \cup
    {[err |-> FALSE, farmer |-> f] : f \in Farmers \ Elems(exclude)}

\* BridgeClient.prototype.storeFileInBucket
StoreFileInBucket ==
    /\ up.used /\ up.phase = "new"
    /\ up' = [up EXCEPT !.phase = "framing"]
    /\ UNCHANGED notUp

\* the callback of createFileStagingFrame
FrameDone ==
    /\ up.used /\ up.phase = "framing"
    /\ \E err \in BOOLEAN :
          up' = IF err THEN Callback([up EXCEPT !.phase = "ended"], "frame failed")
                ELSE [up EXCEPT !.phase = "demuxing"]
    /\ UNCHANGED notUp

\* the demuxer's 'shard' event
DemuxShard ==
    /\ up.used /\ up.phase \in {"demuxing", "entry", "ended"}
    /\ up.cbs # <<"frame failed">>
    /\ up.demuxed < up.numShards
    /\ up' = _handleShardStream(up, up.demuxed + 1)
    /\ UNCHANGED notUp

\* async.queue hands the next task to a free worker
WorkerStart ==
    /\ up.used /\ up.queue # <<>>
    /\ Cardinality(Workers(up)) < up.concurrency
    /\ up' = _shardUploadWorker(up, Head(up.queue))
    /\ UNCHANGED notUp

\* the tmp file's 'finish' event
TmpFileFinish ==
    /\ up.used
    /\ \E i \in DOMAIN up.shards :
          /\ up.shards[i].st = "writing"
          /\ up' = _handleShardTmpFileFinish(up, i)
    /\ UNCHANGED notUp

AddShardDone ==
    /\ up.used
    /\ \E i \in DOMAIN up.shards :
          /\ up.shards[i].st = "adding"
          /\ \E r \in PointerReplies(up.shards[i].excludeFarmers) :
                up' = onAddShard(up, i, r)
    /\ UNCHANGED notUp

\* _transferShard's _onErr
TransferRetry ==
    /\ up.used
    /\ \E i \in DOMAIN up.shards :
          /\ up.shards[i].st = "transferring"
          /\ up' = onRetry(up, i)
    /\ UNCHANGED notUp

\* the data channel's 'finish' event
TransferFinish ==
    /\ up.used
    /\ \E i \in DOMAIN up.shards :
          /\ up.shards[i].st = "transferring"
          /\ up' = _shardTransferComplete(up, i)
    /\ UNCHANGED notUp

\* the reply to POST /buckets/:id/files
EntryDone ==
    /\ up.used /\ up.phase = "entry"
    /\ \E r \in {"entry created", "entry failed"} :
          up' = Callback([up EXCEPT !.phase = "ended"], r)
    /\ UNCHANGED notUp

NextUpload ==
    \/ StoreFileInBucket \/ FrameDone \/ DemuxShard \/ WorkerStart
    \/ TmpFileFinish \/ AddShardDone \/ TransferRetry \/ TransferFinish
    \/ EntryDone

InitUpload ==
    /\ MuxIdle /\ RecvIdle /\ JoinIdle /\ TunIdle /\ RtIdle /\ ActIdle
    /\ UtilIdle /\ UpInit /\ RamIdle /\ MoreIdle

SpecUpload == InitUpload /\ [][NextUpload]_vars

Shards == IF up.used THEN DOMAIN up.shards ELSE {}
FarmersOf(ptrs) == [k \in DOMAIN ptrs |-> ptrs[k].farmer]

\* the exclude list of shard i holds exactly the farmers whose pointers
\* exhausted their retries: every pointer but one still being transferred
Exhausted(i) ==
    LET sh == up.shards[i] IN
    IF sh.st \in {"transferring", "done"}
    THEN SubSeq(FarmersOf(sh.ptrs), 1, Len(sh.ptrs) - 1)
    ELSE FarmersOf(sh.ptrs)

C17_Bounded ==
    \A i \in Shards :
        LET sh == up.shards[i] IN
        /\ \A k \in DOMAIN sh.ptrs :
              /\ sh.ptrs[k].starts <= up.transferRetries + 1
              /\ k < Len(sh.ptrs) => sh.ptrs[k].starts = up.transferRetries + 1
              /\ sh.ptrs[k].exclude = SubSeq(FarmersOf(sh.ptrs), 1, k - 1)
        /\ sh.excludeFarmers = Exhausted(i)
        /\ sh.st = "transferring" =>
              sh.transferRetries = sh.ptrs[Len(sh.ptrs)].starts - 1
        /\ sh.st = "adding" => sh.transferRetries = 0

C17_Grows ==
    \A i \in Shards :
        IsPrefix(up.shards[i].excludeFarmers, up'.shards[i].excludeFarmers)

\* C17: for every shard and pointer the transfer is started at most
\* transferRetries + 1 times; a pointer is replaced only after exactly that
\* many starts, and then the farmer is appended to the shard's excludeFarmers,
\* the retry counter is back at 0 and the new pointer is requested with an
\* exclude list holding every farmer that exhausted its retries for the shard
\* before; excludeFarmers only ever grows.
C17_TransferRetries == [](C17_Bounded) /\ [][C17_Grows]_vars

C17_Witness ==
    \E i \in Shards :
        /\ Len(up.shards[i].ptrs) = 2
        /\ up.shards[i].ptrs[2].exclude = <<up.shards[i].ptrs[1].farmer>>
        /\ up.shards[i].st = "transferring"
        /\ up.transferRetries = 1
        /\ up.shards[i].ptrs[2].starts = 2

\* C18: storeFileInBucket invokes its completion callback at most once per
\* call, whatever the interleaving of its shards, also when frame creation
\* fails, when the registration of two or more shards fails and when one
\* shard fails while others complete.
C18_AsStated == up.used => Len(up.cbs) <= 1

C18_Witness ==
    /\ up.used
    /\ up.cbs = <<"addShard failed", "addShard failed">>
    /\ \A i \in Shards : up.shards[i].st = "failed"

\* the upload has terminated after its frame was created
Terminated == up.used /\ up.cbs # <<>> /\ up.cbs[1] # "frame failed"

\* C19: once the completion callback of an upload whose frame was created
\* has been invoked, no temporary shard file of the upload exists, then or
\* at any later moment.
C19_AsStated == Terminated => \A i \in Shards : ~up.shards[i].tmp

C19_Witness ==
    /\ Terminated
    /\ \E i \in Shards : up.shards[i].st = "queued" /\ up.shards[i].tmp

SumFinished(u) ==
    LET RECURSIVE Sum(_)
        Sum(k) == IF k = 0 THEN 0 ELSE u.shards[k].finished + Sum(k - 1)
    IN Sum(u.numShards)

C32_Counts ==
    up.used =>
        /\ \A i \in Shards : up.shards[i].finished <= 1
        /\ up.completed = SumFinished(up)
        /\ up.completed <= up.numShards
        /\ up.posts <= 1
        /\ up.posts = 1 => \A i \in Shards : up.shards[i].finished = 1

C32_Post ==
    (up.used /\ up'.posts # up.posts) =>
        /\ up.posts = 0
        /\ \A i \in Shards : up'.shards[i].st = "done"

SpecUploadLive ==
    /\ InitUpload /\ [][NextUpload]_vars
    /\ WF_vars(StoreFileInBucket) /\ WF_vars(FrameDone) /\ WF_vars(DemuxShard)
    /\ WF_vars(WorkerStart) /\ WF_vars(TmpFileFinish) /\ WF_vars(AddShardDone)
    /\ WF_vars(TransferRetry \/ TransferFinish) /\ WF_vars(EntryDone)

\* at most `concurrency` tasks are executing
C35_Limit == up.used => Cardinality(Workers(up)) <= up.concurrency

\* a task beyond the first `concurrency` ones was started only after a
\* running one had called done()
C35_AfterDone == up.used => Len(up.cleanQueue) <= up.concurrency + up.completed

Queued(i) == up.used /\ i \in Shards /\ up.shards[i].st = "queued"

\* C35: at every moment of an upload at most `concurrency` shard upload
\* tasks are executing; a queued task starts only after a running task has
\* signalled completion; and, when every bridge request and every data
\* channel eventually answers, every queued shard task is eventually started.
C35_AsStated ==
    /\ [](C35_Limit /\ C35_AfterDone)
    /\ \A i \in 1..MaxUploadShards : Queued(i) ~> ~Queued(i)

\* the only worker is held by a task whose registration failed while another
\* task waits in the queue
C35_Witness ==
    /\ up.used /\ up.concurrency = 1 /\ up.numShards = 2
    /\ up.shards[1].st = "failed" /\ up.shards[2].st = "queued"
    /\ up.completed = 0

(***************************************************************************)
(* RAMStorageAdapter                                                       *)
(***************************************************************************)
MaxKeys == 2            \* keys explored
MaxItemFarmers == 1     \* farmer ids an item's maps may hold entries for
ShardKeys == 1..MaxKeys
ItemFarmers == 1..MaxItemFarmers

\* a JavaScript object with farmer ids as keys
MapsOver(ids, values) == UNION {[d -> values] : d \in SUBSET ids}
Set(obj, key, value) ==
    [k \in DOMAIN obj \cup {key} |-> IF k = key THEN value ELSE obj[k]]
Delete(obj, key) == [k \in DOMAIN obj \ {key} |-> obj[k]]

\* new Contract(data)
NewContract(c) == c

\* new StorageItem(data)
StorageItem(data) ==
    [hash |-> data.hash, shard |-> data.shard,
     contracts |-> [n \in DOMAIN data.contracts |-> NewContract(data.contracts[n])],
     trees |-> data.trees, challenges |-> data.challenges, meta |-> data.meta]

Items ==
    {StorageItem([hash |-> h, shard |-> "null", contracts |-> c, trees |-> t,
                  challenges |-> ch, meta |-> m]) :
        h \in ShardKeys, c \in MapsOver(ItemFarmers, {"contract"}),
        t \in MapsOver(ItemFarmers, {"leaves"}),
        ch \in MapsOver(ItemFarmers, {"record"}),
        m \in MapsOver(ItemFarmers, {"meta"})}

\* RAMStorageAdapter.prototype._put
_putNothing(r, key, item) == r
_put(r, key, item) == [r EXCEPT !._items = Set(@, key, item)]

\* if (this._shards[key])
HasShardAlways(r, key) == TRUE
HasShard(r, key) == key \in DOMAIN r._shards

\* RAMStorageAdapter.prototype._get: the stored item gets its shard stream
\* and the callback a new StorageItem made from it
_get(r, key) ==
    IF key \notin DOMAIN r._items
    THEN [r EXCEPT !.got = [kind |-> "error", key |-> key,
                            message |-> "Shard data not found"]]
    ELSE LET result == [r._items[key] EXCEPT
                           !.shard = IF HasShard(r, key)
                                     THEN "readable" ELSE "writable"]
         IN [r EXCEPT !._items = Set(@, key, result),
                      !.got = [kind |-> "item", key |-> key,
                               item |-> StorageItem(result)]]

\* RAMStorageAdapter.prototype._peek
_peek(r, key) ==
    IF key \notin DOMAIN r._items
    THEN [r EXCEPT !.got = [kind |-> "peekError", key |-> key,
                            message |-> "Shard data not found"]]
    ELSE [r EXCEPT !.got = [kind |-> "peeked", key |-> key,
                            item |-> StorageItem(r._items[key])]]

\* RAMStorageAdapter.prototype._del
_delRecord(r, key) ==
    [r EXCEPT !._shards = Delete(@, key), !._items = Delete(@, key)]
_del(r, key) == [r EXCEPT !._shards = Delete(@, key)]

\* RAMStorageAdapter.prototype._keys
_keys(r) == DOMAIN r._items

\* the write method of the writable stream handed out by _get
write(r, key, data) == [r EXCEPT !._shards = Set(@, key, data)]

RamInit ==
    ram = [used |-> TRUE, _items |-> <<>>, _shards |-> <<>>, puts |-> <<>>,
           got |-> [kind |-> "none"]]

RamPut ==
    /\ ram.used /\ ram.got.kind = "none"
    /\ \E key \in ShardKeys, item \in Items :
          ram' = [_put(ram, key, item) EXCEPT !.puts = Set(@, key, item)]
    /\ UNCHANGED notRam

RamGet ==
    /\ ram.used /\ ram.got.kind = "none"
    /\ \E key \in ShardKeys : ram' = _get(ram, key)
    /\ UNCHANGED notRam

\* the caller is done with the result of its call
RamGot ==
    /\ ram.used /\ ram.got.kind # "none"
    /\ ram' = [ram EXCEPT !.got = [kind |-> "none"]]
    /\ UNCHANGED notRam

RamPeek ==
    /\ ram.used /\ ram.got.kind = "none"
    /\ \E key \in ShardKeys : ram' = _peek(ram, key)
    /\ UNCHANGED notRam

RamDel ==
    /\ ram.used /\ ram.got.kind = "none"
    /\ \E key \in ShardKeys :
          ram' = [_del(ram, key) EXCEPT !.got = [kind |-> "deleted", key |-> key]]
    /\ UNCHANGED notRam

RamWrite ==
    /\ ram.used /\ ram.got.kind = "none"
    /\ \E key \in DOMAIN ram._items :
          /\ ram._items[key].shard = "writable"
          /\ ram' = write(ram, key, "data")
    /\ UNCHANGED notRam

NextRam == RamPut \/ RamGet \/ RamPeek \/ RamGot \/ RamDel \/ RamWrite

InitRam ==
    /\ MuxIdle /\ RecvIdle /\ JoinIdle /\ TunIdle /\ RtIdle /\ ActIdle
    /\ UtilIdle /\ UpIdle /\ RamInit /\ MoreIdle

SpecRam == InitRam /\ [][NextRam]_vars

\* every entry of map b is an entry of map a
IncludesMap(a, b) == \A n \in DOMAIN b : n \in DOMAIN a /\ a[n] = b[n]
Includes(a, b) ==
    /\ a.hash = b.hash
    /\ IncludesMap(a.contracts, b.contracts)
    /\ IncludesMap(a.trees, b.trees)
    /\ IncludesMap(a.challenges, b.challenges)
    /\ IncludesMap(a.meta, b.meta)

\* C20: a get(K) that follows put(K, I), with no other put to K in between,
\* succeeds and returns an item whose hash, contracts, trees, challenges and
\* meta include every entry of I.
C20_PutGet ==
    (ram.used /\ ram.got.kind \in {"item", "error"}
              /\ ram.got.key \in DOMAIN ram.puts) =>
        /\ ram.got.kind = "item"
        /\ Includes(ram.got.item, ram.puts[ram.got.key])

C20_Witness ==
    /\ ram.used /\ ram.got.kind = "item"
    /\ ram.got.item.contracts # <<>> /\ ram.got.item.meta # <<>>
    /\ ram.got.item.shard = "readable"
    /\ DOMAIN ram.puts = ShardKeys
    /\ ram.puts[1] # ram.puts[2]

\* C21: a put never drops what earlier puts stored under the key: the
\* contract, tree and challenge maps stored under every key include, after
\* every step, the entries they held before it (the stored maps being the
\* union of the maps of all items put to the key).
C21_AsStated ==
    [][ram.used =>
         \A k \in DOMAIN ram._items :
            /\ k \in DOMAIN ram'._items
            /\ IncludesMap(ram'._items[k].contracts, ram._items[k].contracts)
            /\ IncludesMap(ram'._items[k].trees, ram._items[k].trees)
            /\ IncludesMap(ram'._items[k].challenges, ram._items[k].challenges)]_vars

\* C22: get(K) fails with 'Shard data not found' exactly when no item was
\* ever put under K; otherwise the returned item's shard is a readable
\* stream exactly when shard bytes are stored for K and a writable sink
\* exactly when none are.
C22_Get ==
    (ram.used /\ ram.got.kind \in {"item", "error"}) =>
        /\ ram.got.kind = "error" <=> ram.got.key \notin DOMAIN ram.puts
        /\ ram.got.kind = "error" => ram.got.message = "Shard data not found"
        /\ ram.got.kind = "item" =>
              /\ ram.got.item.shard = "readable" <=> ram.got.key \in DOMAIN ram._shards
              /\ ram.got.item.shard = "writable" <=> ram.got.key \notin DOMAIN ram._shards

C22_Witness ==
    /\ ram.used /\ ram.got.kind = "item" /\ ram.got.item.shard = "writable"
    /\ DOMAIN ram._shards = ShardKeys \ {ram.got.key}

\* C23: peek(K) returns the item with no shard stream attached, in every
\* reachable adapter state, also after earlier get(K) calls.
C23_AsStated ==
    (ram.used /\ ram.got.kind = "peeked") => ram.got.item.shard = "null"

C23_Witness ==
    /\ ram.used /\ ram.got.kind = "peeked" /\ ram.got.item.shard = "readable"

\* C24: del(K) reports no error and removes exactly the shard bytes of K: a
\* get(K) then yields a writable sink, the records of all keys (what peek and
\* keys return) and the bytes of every other key are unchanged, and a del of
\* a key without bytes or without a record changes nothing.
C24_Del ==
    [][(ram.used /\ ram.got.kind = "none" /\ ram'.got.kind = "deleted") =>
          LET key == ram'.got.key IN
          /\ ram'._items = ram._items
          /\ _keys(ram') = _keys(ram)
          /\ \A k \in ShardKeys : _peek(ram', k).got = _peek(ram, k).got
          /\ ram'._shards = Delete(ram._shards, key)
          /\ key \notin DOMAIN ram._shards => ram'._shards = ram._shards
          /\ key \in DOMAIN ram._items =>
                _get([ram' EXCEPT !.got = ram.got], key).got.item.shard = "writable"]_vars

C24_Witness ==
    /\ ram.used /\ ram.got.kind = "deleted"
    /\ ram.got.key \in DOMAIN ram._items
    /\ DOMAIN ram._shards = ShardKeys \ {ram.got.key}
    /\ ram._items[ram.got.key].shard = "readable"

\* key names by what the shard hash pattern looks at: their length and
\* whether all their characters are hexadecimal digits ('.DS_Store' is
\* [len |-> 9, hex |-> FALSE])
KeyNames == [len : {9, 40}, hex : BOOLEAN]
IsShardHash(k) == k.len = 40 /\ k.hex
BareItems == {i \in Items : i.contracts = <<>> /\ i.trees = <<>>
                            /\ i.challenges = <<>> /\ i.meta = <<>>}

\* a put under any key name
RamPutNamed ==
    /\ ram.used /\ ram.got.kind = "none"
    /\ \E key \in KeyNames, item \in BareItems :
          ram' = [_put(ram, key, item) EXCEPT !.puts = Set(@, key, item)]
    /\ UNCHANGED notRam

RamKeys ==
    /\ ram.used /\ ram.got.kind = "none"
    /\ ram' = [ram EXCEPT !.got = [kind |-> "keys", keys |-> _keys(ram)]]
    /\ UNCHANGED notRam

NextKeys == RamPutNamed \/ RamKeys \/ RamGot

SpecKeys == InitRam /\ [][NextKeys]_vars

\* C25: keys() returns only keys that match the 40-hex-character pattern,
\* also after puts under other keys, and returns every stored key that
\* matches it.
C25_AsStated ==
    (ram.used /\ ram.got.kind = "keys") =>
        /\ \A k \in ram.got.keys : IsShardHash(k)
        /\ \A k \in DOMAIN ram.puts : IsShardHash(k) => k \in ram.got.keys

C25_Witness ==
    /\ ram.used /\ ram.got.kind = "keys"
    /\ [len |-> 9, hex |-> FALSE] \in ram.got.keys
    /\ [len |-> 40, hex |-> TRUE] \in ram.got.keys

(***************************************************************************)
(* FileMuxer: limits and failure modes                                     *)
(***************************************************************************)
InputsExceed == "Inputs exceed defined number of shards"

\* C26: on a muxer constructed with shards = n at most n inputs are ever
\* registered: an input() call made while fewer than n inputs are registered
\* registers its input, and every call after that fails with 'Inputs exceed
\* defined number of shards' and registers nothing.
C26_InputLimit ==
    /\ [](Len(registered) <= _shards /\ Len(_inputs) <= Len(registered))
    /\ [][MuxInput =>
            IF Len(registered) < _shards
            THEN /\ Len(registered') = Len(registered) + 1
                 /\ SubSeq(registered', 1, Len(registered)) = registered
                 /\ muxError' # InputsExceed
            ELSE /\ muxError' = InputsExceed
                 /\ registered' = registered /\ _inputs' = _inputs]_vars

C26_Witness ==
    /\ muxError = InputsExceed /\ _shards = 2 /\ Len(registered) = 2

\* a read step that pulls a chunk of k bytes from the current input
Pulls(k) ==
    /\ muxState = "open" /\ _bytesRead < _length /\ _inputs # <<>>
    /\ k \in 1..Len(_inputs[1].buf)
    /\ read(k)

C29_EndOfInput ==
    /\ [](muxState = "ended" => Len(muxOut) = _length)
    /\ [][(MuxRead /\ muxState = "open" /\ _inputs = <<>>
              /\ Len(muxOut) < _length) =>
            /\ muxOut' = muxOut
            /\ muxState' = "error"
            /\ muxError' = "Unexpected end of input"]_vars

C29_Witness ==
    /\ muxError = "Unexpected end of input" /\ muxState = "error"
    /\ _added = 1 /\ Len(muxOut) = 1 /\ _length = 2

\* values of an option: absent, a string, or a number given in halves (so
\* that [t |-> "number", halves |-> 3] is 1.5)
OptionValues(max) ==
    {[t |-> "undefined"], [t |-> "string"]} \cup
    {[t |-> "number", halves |-> h] : h \in (0 - 2)..(2 * max)}
IsNumber(o) == o.t = "number"
IsInteger(o) == o.halves % 2 = 0

NoShards == "You must supply a shards parameter"
ZeroShards == "Cannot multiplex a 0 shard stream"
NoLength == "You must supply a length parameter"
ZeroLength == "Cannot multiplex a 0 length stream"

\* the messages a value can be rejected with; a number that is not an
\* integer is rejected, with a message the parameter's checks can give
RejectionsByType(o, missing, zero) == IF ~IsNumber(o) THEN {missing} ELSE {}
Rejections(o, missing, zero) ==
    IF ~IsNumber(o) THEN {missing}
    ELSE IF o.halves <= 0 THEN {zero}
    ELSE IF ~IsInteger(o) THEN {missing, zero}
    ELSE {}

\* FileMuxer.prototype._checkOptions: the errors it can throw, none if the
\* options pass
_checkOptions(shards, length) ==
    IF Rejections(shards, NoShards, ZeroShards) # {}
    THEN Rejections(shards, NoShards, ZeroShards)
    ELSE Rejections(length, NoLength, ZeroLength)

\* a call of the constructor that has not run yet, with its options
MuxNew ==
    /\ _shards \in OptionValues(MaxShards)
    /\ _length \in OptionValues(MaxLength)
    /\ _added = 0 /\ _inputs = <<>> /\ _bytesRead = 0
    /\ registered = <<>> /\ muxOut = <<>>
    /\ muxState = "new" /\ muxError = "none"

\* new FileMuxer(options)
MuxConstruct ==
    /\ muxState = "new"
    /\ IF _checkOptions(_shards, _length) = {}
       THEN /\ muxState' = "open"
            /\ _shards' = _shards.halves \div 2
            /\ _length' = _length.halves \div 2
            /\ UNCHANGED muxError
       ELSE /\ muxState' = "invalid"
            /\ muxError' \in _checkOptions(_shards, _length)
            /\ UNCHANGED <<_shards, _length>>
    /\ UNCHANGED <<_added, _inputs, _bytesRead, registered, muxOut>>
    /\ UNCHANGED notMux

NextMuxNew == MuxConstruct \/ MuxInput \/ MuxRead

InitMuxNew == MuxNew /\ RecvIdle /\ JoinIdle /\ RestIdle

SpecMuxNew == InitMuxNew /\ [][NextMuxNew]_vars

PositiveInteger(o) == IsNumber(o) /\ o.halves > 0 /\ IsInteger(o)

\* C27: construction succeeds exactly when shards and length are both
\* positive integer numbers; it fails with 'You must supply a shards
\* parameter' for a missing or non-number shards, 'Cannot multiplex a 0
\* shard stream' for shards <= 0, and with the corresponding length messages
\* for a length that is missing, not a number or <= 0 when shards is valid.
C27_Construction ==
    [][muxState = "new" =>
         /\ muxState' = "open" <=> (PositiveInteger(_shards) /\ PositiveInteger(_length))
         /\ muxState' = "open" =>
               _shards' * 2 = _shards.halves /\ _length' * 2 = _length.halves
         /\ muxState' # "open" => muxState' = "invalid"
         /\ ~IsNumber(_shards) => muxError' = NoShards
         /\ (IsNumber(_shards) /\ _shards.halves <= 0) => muxError' = ZeroShards
         /\ (PositiveInteger(_shards) /\ ~IsNumber(_length)) => muxError' = NoLength
         /\ (PositiveInteger(_shards) /\ IsNumber(_length) /\ _length.halves <= 0)
               => muxError' = ZeroLength]_vars

C27_Witness ==
    /\ muxState = "invalid" /\ muxError = ZeroLength
    /\ _shards = [t |-> "number", halves |-> 4]
    /\ _length = [t |-> "number", halves |-> 0]

(***************************************************************************)
(* Merkle audit: AuditStream, ProofStream, Verification                    *)
(***************************************************************************)
MaxAudits == 3          \* largest audit count explored

\* RIPEMD160(SHA256(x)), taken as collision free; a || b is the pair <<a, b>>
Digest(x) == [h |-> x]
IsDigest(x) == "h" \in DOMAIN x

\* the next power of two
RECURSIVE PowerOfTwoFrom(_, _)
PowerOfTwoFrom(p, n) == IF p >= n THEN p ELSE PowerOfTwoFrom(2 * p, n)
NextPowerOfTwo(n) == PowerOfTwoFrom(1, n)

\* the leaves padded with the digest of the empty string
Padded(leaves) ==
    [i \in 1..NextPowerOfTwo(Len(leaves)) |->
        IF i <= Len(leaves) THEN leaves[i] ELSE Digest(<<>>)]

Left(row) == SubSeq(row, 1, Len(row) \div 2)
Right(row) == SubSeq(row, Len(row) \div 2 + 1, Len(row))

\* the root of the tree over a row of 2^d nodes, and d
RECURSIVE TreeRoot(_)
TreeRoot(row) ==
    IF Len(row) = 1 THEN row[1]
    ELSE Digest(<<TreeRoot(Left(row)), TreeRoot(Right(row))>>)
RECURSIVE TreeDepth(_)
TreeDepth(row) == IF Len(row) = 1 THEN 0 ELSE 1 + TreeDepth(Left(row))

\* AuditStream: the leaf for a challenge and the records of an audit
Response(challenge, shard) == Digest(<<challenge, shard>>)
Leaf(challenge, shard) == Digest(Response(challenge, shard))
getPublicRecord(challenges, shard) ==
    [i \in DOMAIN challenges |-> Leaf(challenges[i], shard)]
getPrivateRecord(challenges, shard) ==
    [challenges |-> challenges,
     root |-> TreeRoot(Padded(getPublicRecord(challenges, shard))),
     depth |-> TreeDepth(Padded(getPublicRecord(challenges, shard)))]

\* ProofStream: the authentication path of leaf i, siblings in their
\* positions, the response innermost
RECURSIVE PathSiblingFirst(_, _, _)
PathSiblingFirst(row, i, response) ==
    IF Len(row) = 1 THEN [response |-> response]
    ELSE IF i <= Len(row) \div 2
    THEN [left |-> TreeRoot(Right(row)),
          right |-> PathSiblingFirst(Left(row), i, response)]
    ELSE [left |-> TreeRoot(Left(row)),
          right |-> PathSiblingFirst(Right(row), i - Len(row) \div 2, response)]
RECURSIVE Path(_, _, _)
Path(row, i, response) ==
    IF Len(row) = 1 THEN [response |-> response]
    ELSE IF i <= Len(row) \div 2
    THEN [left |-> Path(Left(row), i, response), right |-> TreeRoot(Right(row))]
    ELSE [left |-> TreeRoot(Left(row)),
          right |-> Path(Right(row), i - Len(row) \div 2, response)]

\* ProofStream: the proof for a challenge over the bytes read
Proof(leaves, challenge, shard) ==
    LET response == Response(challenge, shard)
        held == {i \in DOMAIN leaves : leaves[i] = Digest(response)}
    IN IF held = {}
       THEN [err |-> "UnknownChallenge"]
       ELSE [err |-> "none",
             proof |-> Path(Padded(leaves), CHOOSE i \in held : \A j \in held : i <= j,
                            response)]

\* Verification: the number of levels of a proof and its reduction
RECURSIVE Levels(_)
Levels(p) ==
    IF "response" \in DOMAIN p THEN 0
    ELSE 1 + (IF IsDigest(p.left) THEN Levels(p.right) ELSE Levels(p.left))
RECURSIVE Collapse(_)
Collapse(p) ==
    IF "response" \in DOMAIN p THEN Digest(p.response)
    ELSE Digest(<<IF IsDigest(p.left) THEN p.left ELSE Collapse(p.left),
                  IF IsDigest(p.right) THEN p.right ELSE Collapse(p.right)>>)

\* Verification(proof).verify(root, depth)
verify(proof, root, depth) ==
    IF Levels(proof) # depth
    THEN [err |-> "Invalid proof structure"]
    ELSE [err |-> "none", pair |-> <<Collapse(proof), root>>]

AuditNonces == 1..MaxAudits
NoProof == [err |-> "not yet"]

\* audit.end(shard) on an AuditStream of n challenges
AuditGenerate ==
    /\ util.used /\ util.fn = "none"
    /\ \E n \in 1..MaxAudits, shard \in Contents :
       \E challenges \in [1..n -> AuditNonces] :
          util' = [used |-> TRUE, fn |-> "generated", shard |-> shard,
                   private |-> getPrivateRecord(challenges, shard),
                   public |-> getPublicRecord(challenges, shard),
                   challenge |-> 0, over |-> <<>>,
                   proof |-> NoProof, result |-> NoProof]
    /\ UNCHANGED notUtil

\* the farmer answers a challenge of the private record from the bytes it
\* holds
AuditProve ==
    /\ util.used /\ util.fn = "generated"
    /\ \E i \in DOMAIN util.private.challenges, bytes \in Contents :
          util' = [util EXCEPT !.fn = "proved",
                               !.challenge = util.private.challenges[i],
                               !.over = bytes,
                               !.proof = Proof(util.public,
                                               util.private.challenges[i], bytes)]
    /\ UNCHANGED notUtil

\* the renter verifies the proof against the private record
AuditVerify ==
    /\ util.used /\ util.fn = "proved" /\ util.proof.err = "none"
    /\ util' = [util EXCEPT !.fn = "verified",
                            !.result = verify(util.proof.proof, util.private.root,
                                              util.private.depth)]
    /\ UNCHANGED notUtil

NextAudit == AuditGenerate \/ AuditProve \/ AuditVerify

SpecAudit == InitUtils /\ [][NextAudit]_vars

Verifies(r) == r.err = "none" /\ r.pair[1] = r.pair[2]

\* C30: for every shard, audit count and challenge of the private record,
\* the proof produced from the public leaves, the challenge and the shard
\* verifies against the record's root and depth (verify returns a pair of
\* equal values); over other bytes no proof is produced, and the path of
\* no leaf with the response over those bytes verifies.
C30_RoundTrip ==
    /\ (util.used /\ util.fn = "proved" /\ util.over = util.shard) =>
          util.proof.err = "none"
    /\ (util.used /\ util.fn = "proved" /\ util.over # util.shard) =>
          /\ util.proof.err = "UnknownChallenge"
          /\ \A i \in DOMAIN util.public :
                ~Verifies(verify(Path(Padded(util.public), i,
                                      Response(util.challenge, util.over)),
                                 util.private.root, util.private.depth))
    /\ (util.used /\ util.fn = "verified") =>
          (Verifies(util.result) <=> util.over = util.shard)

C30_Witness ==
    /\ util.used /\ util.fn = "verified" /\ Verifies(util.result)
    /\ Len(util.public) = 3 /\ util.private.depth = 2
    /\ util.challenge = util.private.challenges[3]
    /\ util.challenge # util.private.challenges[1]

(***************************************************************************)
(* BridgeClient: createFileStream and resolveFileFromPointers              *)
(***************************************************************************)
SliceLimit == 6             \* var limit = 6: pointers asked for per request
MaxPointers == 7            \* most pointers of a file explored
MaxDownConcurrency == 6     \* largest transfer concurrency explored

\* pointer i of the file has index i; its size
PointerSize(i) == i

\* the bridge's answer to getFilePointers({skip, limit}) for a file of n
\* pointers
PointerSlice(skip, n) ==
    [k \in 1..(IF n - skip > SliceLimit THEN SliceLimit
               ELSE IF n > skip THEN n - skip ELSE 0) |-> skip + k]

RECURSIVE SizeOf(_)
SizeOf(ps) ==
    IF ps = {} THEN 0
    ELSE LET q == CHOOSE q \in ps : TRUE IN PointerSize(q) + SizeOf(ps \ {q})

\* new FileMuxer({shards: pointers.length, length: sum of the sizes})
NewMuxer(pointers) ==
    [_shards |-> Len(pointers), _length |-> SizeOf(Elems(pointers)),
     _added |-> 0, inputs |-> <<>>, errors |-> <<>>, threw |-> FALSE]

\* muxer.input(inputStream): FileMuxer.prototype.input on the muxer record
muxerInput(m, pointer) ==
    IF m._added < m._shards
    THEN [m EXCEPT !._added = @ + 1, !.inputs = Append(@, pointer)]
    ELSE [m EXCEPT !.threw = TRUE]

\* queue.push(task, callback): src tells whose callback the task carries
Push(d, pointer, src) ==
    [d EXCEPT !.queue = Append(@, [pointer |-> pointer, src |-> src])]

\* pointers.shift() on the initial slice: 0 stands for undefined
Shift(d) == IF d.initial = <<>> THEN 0 ELSE Head(d.initial)
Shifted(d) == [d EXCEPT !.initial = IF @ = <<>> THEN <<>> ELSE Tail(@)]

\* _addPointerToInputQueue(done)
_addPointerToInputQueue(d, src) == Push(Shifted(d), Shift(d), src)

RECURSIVE asyncTimes(_, _)
asyncTimes(d, n) ==
    IF n = 0 THEN d ELSE asyncTimes(_addPointerToInputQueue(d, "times"), n - 1)

\* BridgeClient.prototype.resolveFileFromPointers up to the end of the
\* synchronous part of async.times
resolveFileFromPointers(d, pointers) ==
    asyncTimes([d EXCEPT !.phase = "resolving", !.muxer = NewMuxer(pointers),
                    !.initial = pointers, !.first = pointers,
                    !.timesLeft = d.concurrency],
          d.concurrency)

\* the callback a queue task was pushed with
onInputAdded(d, src) ==
    IF src = "times"
    THEN IF d.timesLeft = 1
         THEN \* callback(null, muxer, queue); cb(null, stream); async.until
              [d EXCEPT !.timesLeft = 0, !.phase = "streaming",
                        !.cbs = Append(@, "stream"), !.loop = "idle"]
         ELSE [d EXCEPT !.timesLeft = @ - 1]
    ELSE IF src = "slice"
    THEN \* async.eachSeries: the next pointer of the slice, or done
         IF d.slice = <<>> THEN [d EXCEPT !.loop = "idle"]
         ELSE Push([d EXCEPT !.slice = Tail(@)], Head(d.slice), "slice")
    ELSE d

\* _addInputToMultiplexer once the data channel is open
onChannelOpen(d, task) ==
    LET m == d.muxer
        grown == IF m._added = m._shards
                 THEN [m EXCEPT !._length = @ + PointerSize(task.pointer),
                                !._shards = @ + 1]
                 ELSE m
    IN onInputAdded([d EXCEPT !.muxer = muxerInput(grown, task.pointer),
                              !.busy = [pointer |-> 0, src |-> "none"]],
                    task.src)

\* _addInputToMultiplexer when the data channel fails to open: the error is
\* emitted on the muxer and the task never completes
onChannelErrorContinue(d, task) ==
    onInputAdded([d EXCEPT !.muxer.errors = Append(@, [pointer |-> task.pointer]),
                           !.busy = [pointer |-> 0, src |-> "none"]],
                 task.src)
onChannelError(d, task) ==
    [d EXCEPT !.muxer.errors = Append(@, [pointer |-> task.pointer]),
              !.failed = task.pointer]

DownInit ==
    down \in {[used |-> TRUE, phase |-> "new", pointers |-> n, concurrency |-> c,
               muxer |-> NewMuxer(<<>>), initial |-> <<>>, first |-> <<>>,
               timesLeft |-> 0, queue |-> <<>>,
               busy |-> [pointer |-> 0, src |-> "none"], failed |-> 0,
               drains |-> 0, skip |-> 0 - SliceLimit, slice |-> <<>>,
               loop |-> "off", cbs |-> <<>>] :
                 n \in 1..MaxPointers, c \in 1..MaxDownConcurrency}

\* BridgeClient.prototype.createFileStream: the token and the first slice
CreateFileStream ==
    /\ down.used /\ down.phase = "new"
    /\ \E err \in BOOLEAN :
          down' = IF err
                  THEN [down EXCEPT !.phase = "failed", !.cbs = Append(@, "error")]
                  ELSE resolveFileFromPointers(
                           [down EXCEPT !.skip = @ + SliceLimit],
                           PointerSlice(down.skip + SliceLimit, down.pointers))
    /\ UNCHANGED notDown

\* the queue (concurrency 1) takes its next task
QueueProcess ==
    /\ down.used /\ down.queue # <<>>
    /\ down.busy.src = "none"
    /\ LET task == Head(down.queue)
           d == [down EXCEPT !.queue = Tail(@)]
       IN down' = IF task.pointer = 0 THEN onInputAdded(d, task.src)
                  ELSE [d EXCEPT !.busy = task]
    /\ UNCHANGED notDown

\* the data channel of the pointer being added opens
ChannelOpen ==
    /\ down.used /\ down.busy.src # "none" /\ down.failed = 0
    /\ down' = onChannelOpen(down, down.busy)
    /\ UNCHANGED notDown

\* the data channel of the pointer being added fails to open
ChannelError ==
    /\ down.used /\ down.busy.src # "none" /\ down.failed = 0
    /\ down' = onChannelError(down, down.busy)
    /\ UNCHANGED notDown

\* the muxer emits 'drain': an input was read to its end
MuxerDrain ==
    /\ down.used /\ down.phase = "streaming"
    /\ down.drains < Len(down.muxer.inputs)
    /\ down' = _addPointerToInputQueue([down EXCEPT !.drains = @ + 1], "drain")
    /\ UNCHANGED notDown

\* _resolveNextSlice: the token and the next slice
ResolveNextSlice ==
    /\ down.used /\ down.loop = "idle"
    /\ \E err \in BOOLEAN :
          down' =
            IF err
            THEN [down EXCEPT !.loop = "failed",
                              !.muxer.errors = Append(@, [pointer |-> 0])]
            ELSE LET skip == down.skip + SliceLimit
                     pointers == PointerSlice(skip, down.pointers)
                 IN IF pointers = <<>>
                    THEN [down EXCEPT !.skip = skip, !.loop = "resolved"]
                    ELSE Push([down EXCEPT !.skip = skip, !.loop = "pushing",
                                           !.slice = Tail(pointers)],
                              Head(pointers), "slice")
    /\ UNCHANGED notDown

NextDownload ==
    \/ CreateFileStream \/ QueueProcess \/ ChannelOpen \/ ChannelError
    \/ MuxerDrain \/ ResolveNextSlice

InitDownload ==
    /\ MuxIdle /\ RecvIdle /\ JoinIdle /\ TunIdle /\ RtIdle /\ ActIdle
    /\ UtilIdle /\ UpIdle /\ RamIdle /\ DownInit /\ FrameIdle /\ SentIdle

SpecDownload == InitDownload /\ [][NextDownload]_vars

\* C31: the data channels are registered as muxer inputs in ascending
\* pointer index order, for every concurrency and number of pointers, also
\* across the boundary between the first slice and the later ones.
C31_AsStated ==
    down.used =>
        \A i, j \in DOMAIN down.muxer.inputs :
            i < j => down.muxer.inputs[i] < down.muxer.inputs[j]

C31_Witness ==
    /\ down.used /\ down.concurrency = 1 /\ down.pointers = 7
    /\ down.muxer.inputs = <<1, 7>>

\* the pointers registered after the initially declared number of inputs
Beyond(d) ==
    {d.muxer.inputs[k] : k \in {k \in DOMAIN d.muxer.inputs : k > Len(d.first)}}

\* C33: in resolveFileFromPointers the muxer always has _added <= _shards,
\* muxer.input never fails, and _length is the sum of the sizes of the
\* pointers of the initial slice and of the pointers registered beyond the
\* initially declared count, each pointer counted once.
C33_AsStated ==
    (down.used /\ down.phase \in {"resolving", "streaming"}) =>
        /\ down.muxer._added <= down.muxer._shards
        /\ ~down.muxer.threw
        /\ down.muxer._length = SizeOf(Elems(down.first) \cup Beyond(down))

C33_Witness ==
    /\ down.used /\ down.pointers = 7 /\ Len(down.muxer.inputs) = 7
    /\ down.muxer.inputs[2] = 7 /\ down.muxer.inputs[7] = 6
    /\ down.muxer._length = SizeOf(1..6) + PointerSize(6)

PointerErrors(d) == {k \in DOMAIN d.muxer.errors : d.muxer.errors[k].pointer # 0}

\* C34: when the data channel of a pointer fails to open, the muxer has
\* emitted exactly one 'error' carrying a pointer, and it is that pointer;
\* the pointer is not among the muxer's inputs and no input is registered
\* from then on.
C34_OpenFailure ==
    /\ []((down.used /\ down.failed # 0) =>
            /\ Cardinality(PointerErrors(down)) = 1
            /\ \A k \in PointerErrors(down) :
                  down.muxer.errors[k].pointer = down.failed
            /\ down.failed \notin Elems(down.muxer.inputs))
    /\ []((down.used /\ down.failed = 0) => PointerErrors(down) = {})
    /\ [][(down.used /\ PointerErrors(down) # {}) =>
             down'.muxer.inputs = down.muxer.inputs]_vars

C34_Witness ==
    /\ down.used /\ down.failed = 2 /\ down.concurrency = 1
    /\ down.muxer.inputs = <<1>> /\ down.loop = "pushing"
    /\ down.queue = <<[pointer |-> 7, src |-> "slice"]>>

(***************************************************************************)
(* BridgeClient.prototype.addShardToFileStagingFrame                       *)
(***************************************************************************)
DefaultRetry == 6       \* opt = { retry: 6 } when no options are passed
MaxFrameRetry == 3      \* largest options.retry passed explicitly
MaxAnswers == 2         \* distinct errors and distinct results of the bridge

NoOptions == [given |-> FALSE, retry |-> 0]
FrameOptions == {NoOptions} \cup
                {[given |-> TRUE, retry |-> r] : r \in 0..MaxFrameRetry}

\* a PUT request that has not been answered
Outstanding == [answered |-> FALSE, err |-> FALSE, value |-> 0]
PutAnswers == [answered : {TRUE}, err : BOOLEAN, value : 1..MaxAnswers]

\* self._request('PUT', '/frames/' + f, s, ...)
_addShard(fr) == [fr EXCEPT !.puts = Append(@, Outstanding)]

\* opt.retry > retries
CanRetryEqual(retry, retries) == retry >= retries
CanRetry(retry, retries) == retry > retries

\* BridgeClient.prototype.addShardToFileStagingFrame up to its first request
addShardToFileStagingFrame(fr) ==
    _addShard([fr EXCEPT !.called = TRUE,
                         !.retry = IF fr.opt.given THEN fr.opt.retry
                                   ELSE DefaultRetry])

\* the callback of the PUT request
onPut(fr, ans) ==
    LET f1 == [fr EXCEPT !.puts[Len(fr.puts)] = ans] IN
    IF ans.err
    THEN IF CanRetry(f1.retry, f1.retries)
         THEN _addShard([f1 EXCEPT !.retries = @ + 1])
         ELSE [f1 EXCEPT !.cbs = Append(@, ans)]
    ELSE [f1 EXCEPT !.cbs = Append(@, ans)]

FrameInit ==
    frame \in {[used |-> TRUE, opt |-> o, called |-> FALSE, retry |-> 0,
                retries |-> 0, puts |-> <<>>, cbs |-> <<>>] :
               o \in FrameOptions}

AddShardCall ==
    /\ frame.used /\ ~frame.called
    /\ frame' = addShardToFileStagingFrame(frame)
    /\ UNCHANGED notFrame

\* the bridge answers the outstanding request
PutAnswer ==
    /\ frame.used /\ frame.puts # <<>>
    /\ ~frame.puts[Len(frame.puts)].answered
    /\ \E ans \in PutAnswers : frame' = onPut(frame, ans)
    /\ UNCHANGED notFrame

NextFrame == AddShardCall \/ PutAnswer

InitFrame ==
    /\ MuxIdle /\ RecvIdle /\ JoinIdle /\ TunIdle /\ RtIdle /\ ActIdle
    /\ UtilIdle /\ UpIdle /\ RamIdle /\ DownIdle /\ FrameInit /\ SentIdle

SpecFrame == InitFrame /\ [][NextFrame]_vars

\* the retry option in force
RetryOf(fr) == IF fr.opt.given THEN fr.opt.retry ELSE DefaultRetry

\* the call is over: a request was answered and none is outstanding
FrameOver(fr) ==
    /\ fr.called
    /\ fr.puts[Len(fr.puts)].answered
    /\ \/ ~fr.puts[Len(fr.puts)].err
       \/ Len(fr.puts) = RetryOf(fr) + 1

\* C36: one call of addShardToFileStagingFrame issues at most retry + 1 PUT
\* requests (7 with the default retry = 6), issues a request only after the
\* previous one failed and none after the first success, and invokes its
\* callback exactly once: with the result of the first successful request,
\* or with the error of the last attempt when all retry + 1 attempts failed.
C36_Retries ==
    frame.used =>
        /\ Len(frame.puts) <= RetryOf(frame) + 1
        /\ ~frame.opt.given => Len(frame.puts) <= 7
        /\ \A k \in 1..(Len(frame.puts) - 1) :
              frame.puts[k].answered /\ frame.puts[k].err
        /\ frame.called => frame.retries = Len(frame.puts) - 1
        /\ IF FrameOver(frame)
           THEN frame.cbs = <<frame.puts[Len(frame.puts)]>>
           ELSE frame.cbs = <<>>

\* all seven requests of a call without options failed with different
\* errors and the callback got the last one
C36_Witness ==
    /\ frame.used /\ ~frame.opt.given /\ Len(frame.puts) = 7
    /\ frame.puts[1].value # frame.puts[7].value
    /\ frame.cbs = <<[answered |-> TRUE, err |-> TRUE,
                      value |-> frame.puts[7].value]>>

(***************************************************************************)
(* Transport.prototype.send                                                *)
(***************************************************************************)
MaxSends == 2           \* messages handed to send in one run

\* the contacts and messages send is called with
SendContacts == [address : {"10.0.0.1", "127.0.0.1"}, port : {0, 1337}]
SendKinds == {"request", "response"}

\* kad.transports.HTTP.prototype.send.apply(this, arguments)
httpSend(s, c, kind) ==
    [s EXCEPT !.log = Append(@, [contact |-> c, kind |-> kind,
                                 http |-> TRUE, err |-> "none"])]

\* callback(new Error('Invalid or forbidden contact address'))
Forbidden(s, c, kind) ==
    [s EXCEPT !.log = Append(@, [contact |-> c, kind |-> kind, http |-> FALSE,
                                 err |-> "Invalid or forbidden contact address"])]

\* Transport.prototype.send
sendUnvalidated(s, c, kind) == httpSend(s, c, kind)
send(s, c, kind) ==
    IF kind = "response" THEN httpSend(s, c, kind)
    ELSE IF ~isValidContact(c, s.loopback) THEN Forbidden(s, c, kind)
    ELSE httpSend(s, c, kind)

\* loopback: !!process.env.STORJ_ALLOW_LOOPBACK
SendInit == sent \in {[used |-> TRUE, loopback |-> l, log |-> <<>>] : l \in BOOLEAN}

TransportSend ==
    /\ sent.used /\ Len(sent.log) < MaxSends
    /\ \E c \in SendContacts, kind \in SendKinds : sent' = send(sent, c, kind)
    /\ UNCHANGED notSent

NextSend == TransportSend

InitSend ==
    /\ MuxIdle /\ RecvIdle /\ JoinIdle /\ TunIdle /\ RtIdle /\ ActIdle
    /\ UtilIdle /\ UpIdle /\ RamIdle /\ DownIdle /\ FrameIdle /\ SendInit

SpecSend == InitSend /\ [][NextSend]_vars

\* port 0, or a loopback address while loopback is not allowed
InvalidContact(c) ==
    c.port = 0 \/ (c.address = "127.0.0.1" /\ ~sent.loopback)

\* C37: Transport.send never hands a request to the underlying HTTP transport
\* when the contact is invalid (port 0, or a loopback address while loopback
\* is not allowed): it calls back with 'Invalid or forbidden contact address'
\* instead; a request to a valid contact and every response are handed on.
C37_Send ==
    sent.used =>
        \A k \in DOMAIN sent.log :
            LET e == sent.log[k] IN
            IF e.kind = "request" /\ InvalidContact(e.contact)
            THEN ~e.http /\ e.err = "Invalid or forbidden contact address"
            ELSE e.http /\ e.err = "none"

\* with loopback not allowed a request to a loopback contact was refused and
\* a response to the same contact was handed on
C37_Witness ==
    /\ sent.used /\ ~sent.loopback /\ Len(sent.log) = 2
    /\ sent.log[1].kind = "request" /\ sent.log[2].kind = "response"
    /\ sent.log[1].contact = [address |-> "127.0.0.1", port |-> 1337]
    /\ sent.log[2].contact = sent.log[1].contact
    /\ ~sent.log[1].http /\ sent.log[2].http

(***************************************************************************)
(* RAMStorageAdapter: the streams _get attaches to an item                 *)
(***************************************************************************)
MaxChunkLen == 2        \* longest chunk written to the sink
MaxChunks == 2          \* most chunks written to the sink
\* the key whose streams are followed
SinkKey == CHOOSE k \in ShardKeys : TRUE
Chunks == SeqsUpTo(Bytes, MaxChunkLen) \ {<<>>}

\* new stream.Readable({read: ...}) before its first read
NoReader == [_finished |-> FALSE, out |-> <<>>, ended |-> FALSE]

\* the read function of the readable stream
readShard(r, key) ==
    IF r.reader._finished
    THEN [r EXCEPT !.reader.ended = TRUE]
    ELSE [r EXCEPT !.reader.out = @ \o r._shards[key],
                   !.reader._finished = TRUE]

\* an adapter holding one item without shard data
SinkInit ==
    ram \in {[used |-> TRUE, _items |-> Set(<<>>, SinkKey, item),
              _shards |-> <<>>, puts |-> Set(<<>>, SinkKey, item),
              got |-> [kind |-> "none"], written |-> <<>>,
              reader |-> NoReader] : item \in BareItems}

SinkHeld(kind) ==
    /\ ram.used /\ ram.got.kind = "item" /\ ram.got.item.shard = kind

\* get(K): the caller receives the item and its stream
SinkGet ==
    /\ ram.used /\ ram.got.kind = "none"
    /\ ram' = [_get(ram, SinkKey) EXCEPT !.reader = NoReader]
    /\ UNCHANGED notRam

\* item.shard.write(chunk) on the writable sink
SinkWrite ==
    /\ SinkHeld("writable") /\ Len(ram.written) < MaxChunks
    /\ \E chunk \in Chunks :
          ram' = [write(ram, SinkKey, chunk) EXCEPT !.written = Append(@, chunk)]
    /\ UNCHANGED notRam

\* item.shard.end(): the caller is done with the sink
SinkEnd ==
    /\ SinkHeld("writable")
    /\ ram' = [ram EXCEPT !.got = [kind |-> "none"]]
    /\ UNCHANGED notRam

\* the consumer pulls from the readable stream
SinkRead ==
    /\ SinkHeld("readable") /\ ~ram.reader.ended
    /\ ram' = readShard(ram, SinkKey)
    /\ UNCHANGED notRam

\* the consumer has seen 'end' and drops the stream
SinkDone ==
    /\ SinkHeld("readable") /\ ram.reader.ended
    /\ ram' = [ram EXCEPT !.got = [kind |-> "none"]]
    /\ UNCHANGED notRam

NextSink == SinkGet \/ SinkWrite \/ SinkEnd \/ SinkRead \/ SinkDone

InitSink ==
    /\ MuxIdle /\ RecvIdle /\ JoinIdle /\ TunIdle /\ RtIdle /\ ActIdle
    /\ UtilIdle /\ UpIdle /\ SinkInit /\ MoreIdle

SpecSink == InitSink /\ [][NextSink]_vars

\* C38: writing a byte sequence B through the writable sink obtained from
\* get(K), in one chunk or in several, makes a following get(K) return a
\* readable stream that yields exactly B once and then ends.
C38_AsStated ==
    (SinkHeld("readable") /\ ram.reader.ended) =>
        ram.reader.out = Flatten(ram.written)

\* B = <<1, 2>> written as two chunks is read back as <<2>>
C38_Witness ==
    /\ SinkHeld("readable") /\ ram.reader.ended
    /\ ram.written = <<(<<1>>), (<<2>>)>>
    /\ ram.reader.out = <<2>>

\* what holds: a single chunk is read back whole, once
C38_OneChunk ==
    (SinkHeld("readable") /\ ram.reader.ended /\ Len(ram.written) = 1) =>
        ram.reader.out = ram.written[1]

====
